---- MODULE Spec2Model ----
(***************************************************************************)
(* The CadNav session relay (server/src/index.js) as a state machine.      *)
(*                                                                         *)
(* One action per event the relay's single-threaded event loop handles:    *)
(* a websocket connection, an inbound frame of each command type, a        *)
(* transport close, and the two supervisor timers.  Every handler runs to  *)
(* completion in one step.  Time is the value Date.now() returns, in ms.   *)
(*                                                                         *)
(* Objects and references.  A peer object is created only by host:init and *)
(* client:join, and only on a transport whose meta is still null; meta is  *)
(* never reset.  Hence every transport creates at most one peer object and *)
(* a peer object is identified by the transport that created it: peers[s]  *)
(* is the object created by transport s, and session.host, the values of   *)
(* session.clients and socket.meta.peer are such references.               *)
(*                                                                         *)
(* JavaScript null is represented per type: NoSocket for a socket, NoTime  *)
(* for a timestamp, NoBlob / NoHash for the cached state, <<>> for an      *)
(* absent optional value (<<v>> when present).  A number that can be NaN   *)
(* is <<n>>, and NaN is <<>>.                                              *)
(*                                                                         *)
(* session.clients is a Map: clients holds its entries and clientKeys its  *)
(* keys in insertion order, the order every forEach over it follows.       *)
(*                                                                         *)
(* The traffic meter.  Every frame action counts the inbound frame and     *)
(* every frame it writes, at the byte length JSON.stringify gives them.    *)
(* The meter only ever grows, so a specification that is not about traffic *)
(* starts from AnyMeter, a value that stands for every value of the meter  *)
(* and that every recording leaves as it is; Init, SpecTraffic and the     *)
(* counted run of SpecSend start from the meter at its constructed value.  *)
(***************************************************************************)
EXTENDS Integers, Sequences, FiniteSets, TLC

\* ------------------------------------------------------------------ bounds
MaxTicks == 2          \* clock advances
MaxTokens == 3         \* resume tokens ever generated
MaxVersion == 2        \* accepted host:state uploads per session
T0 == 100000000        \* Date.now() when the server starts
MaxBytes == 2          \* bytes the meter counts within one second
MaxMeter == 700        \* bytes the meter counts before a followed run stops

\* --------------------------------------------------------- program constants
MIN_UPDATE_INTERVAL_MS == 5000
MAX_UPDATE_INTERVAL_MS == 120000
SESSION_TTL_MS == 21600000
HOST_RESUME_GRACE_MS == 900000
MAX_ROUTES_PER_CLIENT == 8
MAX_ROUTE_POINTS == 80
MAX_TRAFFIC_WINDOW_SECONDS == 900
PaletteLength == 10    \* colorPalette.length
\* the documented minimum ms between accepted route uploads per client
ROUTE_UPDATE_INTERVAL_MS == 8000

\* ------------------------------------------------------------ input domains
Sockets == {1, 2, 3}                   \* the transports that ever connect
NoSocket == 0
NoTime == -1
NoBlob == "<null>"
NoHash == <<>>
Codes == {"AB", "CD"}   \* what generateSessionCode draws when SESSION_CODE_LENGTH is 2
HostIds == {"HQ-222", "HQ-223"}             \* what `HQ-${generateLabel()}` can draw
ClientIds == {"CL-333-44", "CL-555-66"}     \* `CL-${generateLabel()}-${generateSuffix()}`
TickSteps == {2000, 5000}              \* how far the clock moves between events
RawSessionIds == {"", "AB", " ab ", "CD"}   \* payload.sessionId as sent
Blobs == {"B1", "B2"}                  \* blobs that decompress to JSON
RawStateData == {"<missing>", "", "BAD"} \cup Blobs   \* payload.data as sent
NaN == <<>>
RawNumbers == {NaN, <<0>>, <<4000>>, <<7000>>, <<125000>>}  \* payload.intervalMs
RawSeconds == {NaN, <<7>>}             \* payload.seconds
RawTimestamps == {<<>>, <<0>>}         \* location.timestamp as sent (absent or numeric)
\* data.type as sent when it is none of the ten commands ("undefined" when it
\* is missing, as the template literal prints it)
UnknownTypes == {"bogus", "undefined"}
\* payload.sessionId as sent when it is truthy and not a string
NonStringSessionIds == {"5", "true"}
\* payload.text as sent ("" also stands for a text that is no string)
RawTexts == {"", "  ", "hello", " hello ", "/data", "/data 60", "/database"}
\* texts that start with /data, with the window each asks for
DataTexts == {"/data", "/database", "/data abc", "/data 0", "/data -5",
              "/data 1.5", "/data 60", "/data 5000"}
\* the bytes argument of recordTraffic at its two call sites: the byte length
\* of a frame, a positive number
RawBytes == {<<1>>}
\* for how many seconds before the first event the server has carried one
\* inbound byte a second
Preload == {0, 3, MAX_TRAFFIC_WINDOW_SECONDS}
\* payload.location as sent: whether lat and lng are numbers, and the timestamp
RawLocations == [valid : BOOLEAN, timestamp : RawTimestamps]
\* A route item as sent: whether normalizeLocation accepts its position, and
\* its id (<<>> when it is no string)
ItemOk == [valid |-> TRUE, id |-> <<"a">>]
ItemBad == [valid |-> FALSE, id |-> <<>>]
\* payload.routes as sent: whether it is an array, and its entries; an entry:
\* whether it is an object, its id, whether items is an array, and the items
RouteA == [object |-> TRUE, id |-> <<"r1">>, isList |-> TRUE, items |-> <<ItemOk, ItemBad>>]
RouteEmpty == [object |-> TRUE, id |-> <<>>, isList |-> TRUE, items |-> <<ItemBad>>]
\* an entry that is no object, and a route of one item more than MAX_ROUTE_POINTS
RouteNone == [object |-> FALSE, id |-> <<>>, isList |-> FALSE, items |-> <<>>]
RouteLong == [object |-> TRUE, id |-> <<"r2">>, isList |-> TRUE,
              items |-> [i \in 1..(MAX_ROUTE_POINTS + 1) |-> ItemOk]]
\* the last two: one route more than MAX_ROUTES_PER_CLIENT after an entry that
\* is skipped, and the long route
RawRoutes == {[isList |-> FALSE, routes |-> <<>>],
              [isList |-> TRUE, routes |-> <<RouteEmpty>>],
              [isList |-> TRUE, routes |-> <<RouteEmpty, RouteA>>],
              [isList |-> TRUE, routes |-> <<RouteNone>> \o
                 [i \in 1..(MAX_ROUTES_PER_CLIENT + 1) |-> RouteA]],
              [isList |-> TRUE, routes |-> <<RouteLong>>]}
\* process.env.LOCATION_INTERVAL_MS after Number(... ?? 10000): unset, "1000",
\* "500000", and a text that is no number
EnvIntervals == {<<10000>>, <<1000>>, <<500000>>, NaN}

VARIABLES
  env,        \* Number(process.env.LOCATION_INTERVAL_MS ?? 10000), NaN as <<>>
  now,        \* Date.now()
  ticks,      \* how many times the clock has advanced
  ready,      \* ready[s]: readyState of transport s ("none" before it connects)
  meta,       \* meta[s]: socket.meta, for the transports whose meta is not null
  peers,      \* peers[s]: the peer object created by transport s
  sessions,   \* the registry: session code -> session record
  order,      \* the registry's keys in Map insertion order
  nextToken,  \* the next value generateResumeToken() returns
  trafficStats,  \* the traffic meter: bytesIn, bytesOut, buckets by second
  isAlive,    \* isAlive[s]: socket.isAlive of transport s
  sent,       \* the frames the last event put on the wire, in order
  last        \* the last event: its kind, its transport, its input, its outcome

vars == <<env, now, ticks, ready, meta, peers, sessions, order, nextToken,
          trafficStats, isAlive, sent, last>>

\* ----------------------------------------------------------------- helpers
Put(f, k, v) == [x \in DOMAIN f \cup {k} |-> IF x = k THEN v ELSE f[x]]
Drop(f, k) == [x \in DOMAIN f \ {k} |-> f[x]]
Min(a, b) == IF a < b THEN a ELSE b
Max(a, b) == IF a > b THEN a ELSE b

RECURSIVE Flatten(_)
Flatten(ss) == IF ss = <<>> THEN <<>> ELSE Head(ss) \o Flatten(Tail(ss))

\* String(x).trim().toUpperCase() on the session ids the model sends.
TrimUpper(raw) == IF raw = " ab " THEN "AB" ELSE raw

\* the requested value taken as it is
unclampedIntervalMs(value) == value

\* const clampIntervalMs = (value) => Math.min(MAX, Math.max(MIN, Math.round(value)));
\* the values the model sends are integers, which Math.round leaves alone
clampIntervalMs(value) ==
  Min(MAX_UPDATE_INTERVAL_MS, Max(MIN_UPDATE_INTERVAL_MS, value))

\* Math.min(Math.max(Number(env ?? 10000), MIN), MAX); Math.max and Math.min
\* return NaN when an argument is NaN
DEFAULT_UPDATE_INTERVAL_MS ==
  IF env = NaN THEN NaN
  ELSE <<Min(Max(env[1], MIN_UPDATE_INTERVAL_MS), MAX_UPDATE_INTERVAL_MS)>>

\* a < b on JavaScript numbers, b possibly NaN: false when b is NaN
Less(a, b) == b # NaN /\ a < b[1]

\* crypto.createHash('sha1').update(blob).digest('base64'): injective on the blobs
Sha1(blob) == <<"sha1", blob>>

\* decompressFromEncodedURIComponent(blob) yields text that JSON.parse accepts
Decompresses(blob) == blob \in Blobs


\* a send that does not look at the readyState
sendUnguardedR(rdy, socket, frame) ==
  IF socket # NoSocket THEN <<[to |-> socket] @@ frame>> ELSE <<>>

\* send(socket, type, payload) when the readyStates are rdy: nothing unless
\* the socket is there and OPEN
sendR(rdy, socket, frame) ==
  IF socket # NoSocket /\ rdy[socket] = "open"
  THEN <<[to |-> socket] @@ frame>>
  ELSE <<>>

send(socket, frame) == sendR(ready, socket, frame)

Error(socket, message) == send(socket, [type |-> "session:error", message |-> message])

\* session.clients.values(): a Map iterates in insertion order, which
\* session.clientKeys holds (the keys of session.clients, oldest entry first)
ClientRefs(session) ==
  [i \in 1..Len(session.clientKeys) |-> session.clients[session.clientKeys[i]]]

\* session.clients.set(participantId, peer): a new key goes last, a key that
\* is there keeps its place
mapSet(session, participantId, ref) ==
  [session EXCEPT !.clients = Put(@, participantId, ref),
                  !.clientKeys = IF participantId \in DOMAIN session.clients
                                 THEN @ ELSE Append(@, participantId)]

\* session.clients.delete(participantId)
mapDelete(session, participantId) ==
  [session EXCEPT !.clients = Drop(@, participantId),
                  !.clientKeys = SelectSeq(@, LAMBDA p : p # participantId)]

hostSocket(session) == peers[session.host].socket

\* sendToHost(session, type, payload)
sendToHostR(rdy, session, frame) ==
  IF hostSocket(session) # NoSocket THEN sendR(rdy, hostSocket(session), frame) ELSE <<>>

sendToHost(session, frame) == sendToHostR(ready, session, frame)

\* sendToClients(session, type, payload)
sendToClientsR(rdy, session, frame) ==
  LET refs == ClientRefs(session)
  IN Flatten([i \in 1..Len(refs) |-> sendR(rdy, peers[refs[i]].socket, frame)])

sendToClients(session, frame) == sendToClientsR(ready, session, frame)

\* broadcast(session, type, payload)
broadcastR(rdy, session, frame) ==
  sendToHostR(rdy, session, frame) \o sendToClientsR(rdy, session, frame)

broadcast(session, frame) == broadcastR(ready, session, frame)

\* the new interval told to the clients alone
notifyClientsOnly(session) ==
  sendToClients(session, [type |-> "session:interval",
                          intervalMs |-> session.locationIntervalMs])

\* notifyIntervalChange(session), the session already holding the new interval
notifyIntervalChange(session) ==
  LET packet == [type |-> "session:interval", intervalMs |-> session.locationIntervalMs]
  IN sendToHost(session, packet) \o sendToClients(session, packet)

\* notifyClientsHostStatus(session, online, reason)
notifyClientsHostStatusR(rdy, session, online, reason) ==
  sendToClientsR(rdy, session, [type |-> "session:host-status", online |-> online,
                                reason |-> reason, timestamp |-> now])

\* buildPeerSnapshot(peer, 'client'); the random label is left out
buildPeerSnapshot(ref) ==
  [id |-> peers[ref].participantId, color |-> peers[ref].color, role |-> "client",
   location |-> peers[ref].location, routes |-> peers[ref].routes]

\* ensureSession(socket): the session code, or "" for null
ensureSession(s) ==
  IF s \in DOMAIN meta /\ meta[s].sessionId \in DOMAIN sessions
  THEN meta[s].sessionId ELSE ""

\* attachSessionMeta(socket, session, peer, role); ref is the reference to peer
attachSessionMeta(s, code, ref, peer, role) ==
  Put(meta, s, [role |-> role, sessionId |-> code,
                participantId |-> peer.participantId, peer |-> ref])

\* the sockets terminateSession calls close() on
SessionSockets(session) ==
  {peers[session.clients[p]].socket : p \in DOMAIN session.clients}
  \cup ({hostSocket(session)} \ {NoSocket})

\* socket.close(code, reason) on each of S: OPEN becomes CLOSING
closeAll(rdy, S) ==
  [s \in Sockets |-> IF s \in S /\ rdy[s] = "open" THEN "closing" ELSE rdy[s]]

\* the close(code, reason) calls of terminateSession, in the order made: each
\* client's transport with 1012, then the host's, if bound, with 1001
closeCalls(session) ==
  LET refs == ClientRefs(session)
  IN [i \in 1..Len(refs) |-> [sock |-> peers[refs[i]].socket, code |-> 1012]]
     \o (IF hostSocket(session) # NoSocket
         THEN <<[sock |-> hostSocket(session), code |-> 1001]>> ELSE <<>>)

\* terminateSession(session, reason) on the state st = [sessions, order, ready,
\* sent, ended]; ended lists the calls made so far, each with its reason and
\* its close() calls
terminateSession(st, code, reason) ==
  LET session == st.sessions[code]
  IN [sessions |-> Drop(st.sessions, code),
      ended |-> Append(st.ended, [code |-> code, reason |-> reason,
                                  closes |-> closeCalls(session)]),
      order |-> SelectSeq(st.order, LAMBDA c : c # code),
      sent |-> st.sent \o broadcastR(st.ready, session,
                                     [type |-> "session:ended", reason |-> reason]),
      ready |-> closeAll(st.ready, SessionSockets(session))]

\* ------------------------------------------------------------- frame sizes
\* Buffer.byteLength(JSON.stringify(value), 'utf8') of the values the relay
\* reads and writes.  What the model leaves out of a value is counted at the
\* length the code gives it: a resume token is 48 hex digits, a label three
\* characters, a colour '#' and six hex digits, a SHA-1 digest 28 base64
\* characters; a position is written with lat 0 and lng 0 and no accuracy.
RECURSIVE digits(_)
digits(n) == IF n < 0 THEN 1 + digits(-n)
             ELSE IF n < 10 THEN 1 ELSE 1 + digits(n \div 10)

RECURSIVE Sum(_)
Sum(ns) == IF ns = <<>> THEN 0 ELSE Head(ns) + Sum(Tail(ns))

\* A string is counted in its quotes, Len + 2 (the strings of the model need
\* no escapes); true and null are 4 bytes, false is 5.
\* "key":value
jsonMember(key, valueBytes) == Len(key) + 3 + valueBytes

\* {member,member,...}, and likewise [element,element,...], from the sizes
\* of the parts: the brackets, the parts and the commas between them
jsonObject(members) == 2 + Sum(members) + Max(Len(members) - 1, 0)

TokenBytes == 50
LabelBytes == 5
ColourBytes == 9
HashBytes == 30

\* the id of a route or of a route item: a string as sent, or `R-${n}`, `PT-${n}`
idBytes(id) == IF Len(id) = 1 THEN Len(id[1]) + 2
               ELSE Len(id[1]) + 1 + digits(id[2]) + 2

\* a normalized location, or null
locationBytes(location) ==
  IF location = <<>> THEN 4
  ELSE jsonObject(<<jsonMember("lat", 1), jsonMember("lng", 1),
                    jsonMember("timestamp", digits(location[1].timestamp))>>)

\* what sanitizeClientRoutes returns: each route with id, color null and
\* items, each item with id and position (a name is undefined and left out)
routesBytes(routes) ==
  LET itemBytes(item) ==
        jsonObject(<<jsonMember("id", idBytes(item.id)),
                     jsonMember("position", jsonObject(<<jsonMember("lat", 1),
                                                         jsonMember("lng", 1)>>))>>)
      routeBytes(route) ==
        jsonObject(<<jsonMember("id", idBytes(route.id)), jsonMember("color", 4),
                     jsonMember("items",
                       jsonObject([i \in 1..Len(route.items) |->
                                     itemBytes(route.items[i])]))>>)
  IN jsonObject([i \in 1..Len(routes) |-> routeBytes(routes[i])])

\* what buildPeerSnapshot returns
snapshotBytes(q) ==
  jsonObject(<<jsonMember("id", Len(q.id) + 2), jsonMember("color", ColourBytes),
               jsonMember("label", LabelBytes), jsonMember("role", Len(q.role) + 2),
               jsonMember("location", locationBytes(q.location)),
               jsonMember("routes", IF q.routes = <<>> THEN 4
                                    ELSE routesBytes(q.routes[1]))>>)

\* the snapshots of a session:ready, one after the other
RECURSIVE snapshotsBytes(_)
snapshotsBytes(qs) ==
  IF qs = {} THEN <<>>
  ELSE LET q == CHOOSE x \in qs : TRUE
       IN <<snapshotBytes(q)>> \o snapshotsBytes(qs \ {q})

\* new Date(startedAt).toLocaleString() and its length, for a start of the
\* server within January 1970: "1/2/1970, 3:46:40 AM", the day of the month
\* and the hour of the 12-hour clock without a leading zero (the locale
\* en-US and the time zone UTC, which Node has when none is set)
dateBytes(startedAt) ==
  LET day == startedAt \div 86400000 + 1
      hour == (startedAt % 86400000) \div 3600000
      hour12 == IF hour % 12 = 0 THEN 12 ELSE hour % 12
  IN Len("1/") + digits(day) + Len("/1970, ") + digits(hour12) + Len(":46:40 AM")

\* the text of the reply to /data, in its quotes; trafficStats.startedAt is
\* Date.now() when the server starts, T0; (bytes / 1024).toFixed(2)
\* and (bytes / window / 1024).toFixed(2) are the digits before the point,
\* the point and two digits.  toFixed rounds the exact value of the double to
\* the nearest hundredth, the larger one of two that are equally near.  The
\* double is bytes / divisor, rounded to 53 bits, over 1024 (exact): where
\* the quotient of the integers lies strictly between two hundredths' halves
\* the rounding of the division is too small to matter; where it is exactly
\* half a hundredth, bytes / divisor is odd * 128 / 25, and the hundredth is the
\* upper one when that is a double or the division rounded it up, the lower
\* one when the division rounded it down (r, the remainder of the 53-bit
\* quotient's last place, below half of 25)
dataReplyBytes(summary) ==
  LET RECURSIVE pow2(_)
      pow2(k) == IF k = 0 THEN 1 ELSE 2 * pow2(k - 1)
      RECURSIVE floorLog2(_)
      floorLog2(n) == IF n < 2 THEN 0 ELSE 1 + floorLog2(n \div 2)
      hundredths(bytes, divisor) ==
        LET up == (bytes * 200 + divisor * 1024) \div (divisor * 2048)
            tie == (bytes * 200 + divisor * 1024) % (divisor * 2048) = 0
            odd == 2 * up - 1
            r == ((odd % 25) * 3 * pow2((52 - floorLog2(bytes \div divisor)) % 20)) % 25
        IN IF tie /\ r # 0 /\ 2 * r < 25 THEN up - 1 ELSE up
      fixed2(bytes, divisor) == digits(hundredths(bytes, divisor) \div 100) + 3
  IN Len("Server traffic total: ") + fixed2(summary.totalBytes, 1)
     + Len(" KB since ") + dateBytes(T0)
     + (IF summary.windowBytes # <<>> /\ summary.window # <<0>>
        THEN Len(" | Last ") + digits(summary.window[1]) + Len("s: ")
             + fixed2(summary.windowBytes[1], 1) + Len(" KB (")
             + fixed2(summary.windowBytes[1], summary.window[1]) + Len(" KB/s)")
        ELSE Len(" | Tip: /data <seconds> for a recent window"))
     + 2

\* the payload of a frame the relay writes
payloadBytes(frame) ==
  CASE frame.type = "session:error" ->
         jsonObject(<<jsonMember("message", Len(frame.message) + 2)>>)
    [] frame.type = "session:ready" ->
         jsonObject(<<jsonMember("sessionId", Len(frame.sessionId) + 2),
                      jsonMember("role", Len(frame.role) + 2),
                      jsonMember("participantId", Len(frame.participantId) + 2),
                      jsonMember("peers", jsonObject(snapshotsBytes(frame.peers))),
                      jsonMember("state",
                        IF frame.state = <<>> THEN 4
                        ELSE jsonObject(<<jsonMember("version",
                                                     digits(frame.state[1].version)),
                                          jsonMember("data", Len(frame.state[1].data) + 2),
                                          jsonMember("compressed", 4),
                                          jsonMember("hash", HashBytes)>>)),
                      jsonMember("intervalMs", (IF frame.intervalMs = NaN THEN 4 ELSE digits(frame.intervalMs[1])))>>
                    \o (IF "resumeToken" \in DOMAIN frame
                        THEN <<jsonMember("resumeToken", TokenBytes)>> ELSE <<>>))
    [] frame.type = "session:peer-joined" ->
         jsonObject(<<jsonMember("participant", snapshotBytes(frame.participant))>>)
    [] frame.type = "session:peer-left" ->
         jsonObject(<<jsonMember("participantId", Len(frame.participantId) + 2)>>)
    [] frame.type = "session:location" ->
         jsonObject(<<jsonMember("participantId", Len(frame.participantId) + 2),
                      jsonMember("location", locationBytes(frame.location)),
                      jsonMember("role", Len(frame.role) + 2)>>)
    [] frame.type = "session:state" ->
         jsonObject(<<jsonMember("version", digits(frame.version)),
                      jsonMember("data", Len(frame.data) + 2),
                      jsonMember("compressed", 4), jsonMember("hash", HashBytes),
                      jsonMember("size", digits(Len(frame.data)))>>)
    [] frame.type = "session:peer-routes" ->
         jsonObject(<<jsonMember("participantId", Len(frame.participantId) + 2),
                      jsonMember("routes", routesBytes(frame.routes))>>)
    [] frame.type = "session:message" ->
         jsonObject(<<jsonMember("participantId", Len(frame.participantId) + 2),
                      jsonMember("text", IF "summary" \in DOMAIN frame
                                         THEN dataReplyBytes(frame.summary)
                                         ELSE Len(frame.text) + 2),
                      jsonMember("role", Len(frame.role) + 2),
                      jsonMember("timestamp", digits(frame.timestamp))>>)
    [] frame.type = "session:heartbeat" ->
         jsonObject(<<jsonMember("timestamp", digits(frame.timestamp))>>)
    [] frame.type = "session:interval" ->
         jsonObject(<<jsonMember("intervalMs", (IF frame.intervalMs = NaN THEN 4 ELSE digits(frame.intervalMs[1])))>>)
    [] frame.type = "session:host-status" ->
         jsonObject(<<jsonMember("online", IF frame.online THEN 4 ELSE 5),
                      jsonMember("reason", Len(frame.reason) + 2),
                      jsonMember("timestamp", digits(frame.timestamp))>>)
    [] frame.type = "session:ended" ->
         jsonObject(<<jsonMember("reason", Len(frame.reason) + 2)>>)

\* Buffer.byteLength(JSON.stringify({ type, payload }), 'utf8')
frameBytes(frame) == Len(frame.type) + 22 + payloadBytes(frame)

\* recordTraffic(direction, bytes) on the meter, direction being 'in' or 'out'
recordTraffic(meter, direction, bytes) ==
  IF bytes = NaN \/ bytes[1] <= 0 THEN meter
  ELSE LET bucketKey == now \div 1000
           bucket == IF bucketKey \in DOMAIN meter.buckets
                     THEN meter.buckets[bucketKey] ELSE [in |-> 0, out |-> 0]
           counted == IF direction = "in" THEN [bucket EXCEPT !.in = @ + bytes[1]]
                      ELSE [bucket EXCEPT !.out = @ + bytes[1]]
           all == Put(meter.buckets, bucketKey, counted)
           cutoff == bucketKey - MAX_TRAFFIC_WINDOW_SECONDS
       IN [bytesIn |-> meter.bytesIn + (IF direction = "in" THEN bytes[1] ELSE 0),
           bytesOut |-> meter.bytesOut + (IF direction = "out" THEN bytes[1] ELSE 0),
           buckets |-> [key \in {k \in DOMAIN all : ~(k < cutoff)} |-> all[key]]]

\* segments[1] ? Number(segments[1]) : null, in tenths of a second; null and
\* NaN, which summarizeTraffic treats alike, are both <<>>
windowArg(text) ==
  CASE text = "/data 0" -> <<0>>
    [] text = "/data -5" -> <<-50>>
    [] text = "/data 1.5" -> <<15>>
    [] text = "/data 60" -> <<600>>
    [] text = "/data 5000" -> <<50000>>
    [] OTHER -> NaN

\* Math.round of a positive number of tenths
roundTenths(x) == (x + 5) \div 10

\* bucket.in + bucket.out summed over the buckets whose key is in lo..hi (no
\* key is later than the current second); the range is halved to keep the
\* evaluation shallow
RECURSIVE bucketBytes(_, _, _)
bucketBytes(buckets, lo, hi) ==
  IF lo > hi THEN 0
  ELSE IF lo = hi
    THEN (IF lo \in DOMAIN buckets THEN buckets[lo].in + buckets[lo].out ELSE 0)
  ELSE bucketBytes(buckets, lo, (lo + hi) \div 2)
       + bucketBytes(buckets, (lo + hi) \div 2 + 1, hi)

\* a summary whose window is not capped
summarizeTrafficUncapped(meter, windowSeconds) ==
  LET totalBytes == meter.bytesIn + meter.bytesOut
  IN IF windowSeconds = NaN \/ windowSeconds[1] <= 0
     THEN [totalBytes |-> totalBytes, windowBytes |-> <<>>, window |-> <<>>]
     ELSE LET window == roundTenths(windowSeconds[1])
              nowSeconds == now \div 1000
          IN [totalBytes |-> totalBytes,
              windowBytes |-> <<bucketBytes(meter.buckets, nowSeconds - window,
                                            nowSeconds)>>,
              window |-> <<window>>]

\* summarizeTraffic(windowSeconds): windowBytes and window are <<>> for null
summarizeTraffic(meter, windowSeconds) ==
  LET totalBytes == meter.bytesIn + meter.bytesOut
  IN IF windowSeconds = NaN \/ windowSeconds[1] <= 0
     THEN [totalBytes |-> totalBytes, windowBytes |-> <<>>, window |-> <<>>]
     ELSE LET window == Min(MAX_TRAFFIC_WINDOW_SECONDS, roundTenths(windowSeconds[1]))
              nowSeconds == now \div 1000
          IN [totalBytes |-> totalBytes,
              windowBytes |-> <<bucketBytes(meter.buckets, nowSeconds - window,
                                            nowSeconds)>>,
              window |-> <<window>>]

\* The meter of a specification that does not follow the traffic.  It stands
\* for every value the meter can have, and so does what a recording makes of
\* it; a summary of it stands for every summary.
AnyMeter == [any |-> "meter"]

AnySummary == [any |-> "summary"]

\* recordTraffic('in', incomingBytes), which the message listener calls when
\* incomingBytes > 0
received(meter, bytes) == IF bytes > 0 THEN recordTraffic(meter, "in", <<bytes>>) ELSE meter

\* recordTraffic('out', ...) of send, for each frame written, in order
RECURSIVE written(_, _)
written(meter, frames) ==
  IF frames = <<>> THEN meter
  ELSE written(recordTraffic(meter, "out", <<frameBytes(Head(frames))>>), Tail(frames))

\* the meter after an event that received a frame of so many bytes (0: the
\* event is no frame) and wrote the frames of sent'
Metered(bytes) ==
  trafficStats' = IF trafficStats = AnyMeter THEN AnyMeter
                  ELSE written(received(trafficStats, bytes), sent')

\* incomingBytes of the message listener: Buffer.byteLength of an inbound
\* frame, written as JSON.stringify writes it from the fields the model
\* sends.  A frame without a payload is {"type":...}; one without a type is
\* {}; a route item carries its id, if it is a string, and lat and lng, if
\* normalizeLocation accepts it; an entry of payload.routes that is no object
\* is null, and so is a payload.routes that is no array.
incomingBytes(frame) ==
  LET fields == DOMAIN frame \ {"type"}
      rawItem(item) ==
        jsonObject((IF item.id # <<>> THEN <<jsonMember("id", idBytes(item.id))>> ELSE <<>>)
                   \o (IF item.valid THEN <<jsonMember("lat", 1), jsonMember("lng", 1)>>
                       ELSE <<>>))
      rawRoute(route) ==
        IF ~route.object THEN 4
        ELSE jsonObject((IF route.id # <<>> THEN <<jsonMember("id", idBytes(route.id))>>
                         ELSE <<>>)
                        \o (IF route.isList
                            THEN <<jsonMember("items",
                                     jsonObject([i \in 1..Len(route.items) |->
                                                   rawItem(route.items[i])]))>>
                            ELSE <<>>))
      payload ==
        CASE frame.type = "host:resume" ->
               <<jsonMember("sessionId", Len(frame.sessionId) + 2)>>
               \o (IF frame.resumeToken # 0 THEN <<jsonMember("resumeToken", TokenBytes)>>
                   ELSE <<>>)
          [] frame.type = "client:join" ->
               <<jsonMember("sessionId", IF frame.sessionId \in NonStringSessionIds
                                         THEN Len(frame.sessionId)
                                         ELSE Len(frame.sessionId) + 2)>>
          [] frame.type = "participant:location" ->
               <<jsonMember("location",
                  jsonObject((IF frame.location.valid
                              THEN <<jsonMember("lat", 1), jsonMember("lng", 1)>> ELSE <<>>)
                             \o (IF frame.location.timestamp # <<>>
                                 THEN <<jsonMember("timestamp",
                                                   digits(frame.location.timestamp[1]))>>
                                 ELSE <<>>)))>>
          [] frame.type = "participant:message" ->
               <<jsonMember("text", Len(frame.text) + 2)>>
          [] frame.type = "host:state" ->
               IF frame.data = "<missing>" THEN <<>>
               ELSE <<jsonMember("data", Len(frame.data) + 2)>>
          [] frame.type = "host:interval" ->
               (IF frame.intervalMs # NaN
                THEN <<jsonMember("intervalMs", digits(frame.intervalMs[1]))>> ELSE <<>>)
               \o (IF frame.seconds # NaN
                   THEN <<jsonMember("seconds", digits(frame.seconds[1]))>> ELSE <<>>)
          [] frame.type = "client:routes" ->
               <<jsonMember("routes",
                  IF ~frame.routes.isList THEN 4
                  ELSE jsonObject([i \in 1..Len(frame.routes.routes) |->
                                     rawRoute(frame.routes.routes[i])]))>>
  IN IF frame.type = "undefined" THEN 2
     ELSE IF fields = {} THEN Len(frame.type) + 11
     ELSE Len(frame.type) + 22 + jsonObject(payload)

\* between two events: nothing is being handled and nothing is being written
Idle == [op |-> "idle", sock |-> NoSocket, res |-> "ok"]

\* a transport delivers frames and its close event until it is CLOSED
Receiving(s) == ready[s] \in {"open", "closing"}

\* a transport is one of wss.clients, and its close event is still to come,
\* from its connection until it is CLOSED.  readyState is CLOSING in two
\* ways: "closing" after the relay's own close() or terminate(), and
\* "ending" once the peer has started the close, after which no frame of
\* the peer arrives any more
Connected(s) == ready[s] \in {"open", "closing", "ending"}

\* socket.on('message') runs for one more frame of transport s
Inbound(s) ==
  /\ last = Idle
  /\ Receiving(s)
  /\ UNCHANGED <<env, now, ticks, isAlive>>

\* ------------------------------------------------------------------- Init
\* the meter after k seconds of one inbound byte each, second by second
\* from the start of the server (k = 0: trafficStats as constructed)
meterAfter(k) ==
  [bytesIn |-> k, bytesOut |-> 0,
   buckets |-> [key \in (T0 \div 1000 + 1)..(T0 \div 1000 + k) |-> [in |-> 1, out |-> 0]]]

\* the relay as constructed, k seconds after the start of the server
InitAfter(E, k) ==
  /\ env \in E
  /\ now = T0 + k * 1000
  /\ trafficStats = meterAfter(k)
  /\ ticks = 0
  /\ ready = [s \in Sockets |-> "none"]
  /\ isAlive = [s \in Sockets |-> TRUE]
  /\ meta = <<>>
  /\ peers = <<>>
  /\ sessions = <<>>
  /\ order = <<>>
  /\ nextToken = 1
  /\ sent = <<>>
  /\ last = Idle

\* the relay as constructed, its meter being the given one
InitMetered(E, meter) ==
  /\ env \in E
  /\ now = T0
  /\ trafficStats = meter
  /\ ticks = 0
  /\ ready = [s \in Sockets |-> "none"]
  /\ isAlive = [s \in Sockets |-> TRUE]
  /\ meta = <<>>
  /\ peers = <<>>
  /\ sessions = <<>>
  /\ order = <<>>
  /\ nextToken = 1
  /\ sent = <<>>
  /\ last = Idle

\* the relay as constructed, LOCATION_INTERVAL_MS unset and the meter at zero
Init == InitMetered({<<10000>>}, meterAfter(0))

\* the relay as constructed, for a specification that does not follow the
\* traffic
InitAny(E) == InitMetered(E, AnyMeter)

\* ------------------------------------------------------------- environment
\* wss.on('connection'): socket.meta = null.  Transports are interchangeable,
\* so they connect in index order.
Connect(s) ==
  /\ last = Idle
  /\ ready[s] = "none"
  /\ \A t \in Sockets : t < s => ready[t] # "none"
  /\ ready' = [ready EXCEPT ![s] = "open"]
  /\ sent' = <<>>
  /\ isAlive' = [isAlive EXCEPT ![s] = TRUE]
  /\ last' = [op |-> "connect", sock |-> s, res |-> "ok"]
  /\ UNCHANGED <<env, now, ticks, meta, peers, sessions, order, nextToken, trafficStats>>

\* The clock advances by d between two events.
Tick(d) ==
  /\ last = Idle
  /\ ticks < MaxTicks
  /\ now' = now + d
  /\ ticks' = ticks + 1
  /\ sent' = <<>>
  /\ last' = [op |-> "tick", sock |-> NoSocket, res |-> "ok"]
  /\ UNCHANGED <<env, ready, meta, peers, sessions, order, nextToken, trafficStats, isAlive>>

\* ---------------------------------------------------------------- host:init
\* sessionId is the first code generateSessionCode() draws that is not in the
\* registry, hostId the id `HQ-${generateLabel()}` draws
\* the loop `while (sessions.has(sessionId))` ends with this draw
codeIsFree(sessionId) == sessionId \notin DOMAIN sessions

handleHostInit(s, sessionId, hostId) ==
  IF s \in DOMAIN meta
  THEN /\ sent' = Error(s, "Socket already bound to a session. Disconnect first.")
       /\ last' = [op |-> "host:init", sock |-> s, res |-> "already-bound"]
       /\ UNCHANGED <<meta, peers, sessions, order, nextToken, ready>>
  ELSE   LET hostPeer == [participantId |-> hostId, color |-> -1, socket |-> s,
                          location |-> <<>>, lastLocationAt |-> 0,
                          resumeToken |-> nextToken,
                          routes |-> <<>>, lastRoutesAt |-> 0, routesHash |-> NoHash]
             session == [host |-> s, clients |-> <<>>, clientKeys |-> <<>>, stateVersion |-> 0,
                         stateBlob |-> NoBlob, stateHash |-> NoHash,
                         lastActivity |-> now, colorCursor |-> 0,
                         locationIntervalMs |-> DEFAULT_UPDATE_INTERVAL_MS,
                         hostResumeToken |-> nextToken, hostDetachedAt |-> NoTime]
         IN /\ codeIsFree(sessionId)
            /\ nextToken <= MaxTokens
            /\ nextToken' = nextToken + 1
            /\ peers' = Put(peers, s, hostPeer)
            /\ sessions' = Put(sessions, sessionId, session)
            /\ order' = Append(order, sessionId)
            /\ meta' = attachSessionMeta(s, sessionId, s, hostPeer, "host")
            /\ sent' = send(s, [type |-> "session:ready", sessionId |-> sessionId,
                                role |-> "host", participantId |-> hostId,
                                peers |-> {}, state |-> <<>>,
                                intervalMs |-> session.locationIntervalMs,
                                resumeToken |-> nextToken])
            /\ last' = [op |-> "host:init", sock |-> s, res |-> "ok"]
            /\ UNCHANGED ready

HostInit(s, sessionId, hostId) ==
  /\ Inbound(s)
  /\ handleHostInit(s, sessionId, hostId)
  /\ Metered(incomingBytes([type |-> "host:init"]))

\* -------------------------------------------------------------- host:resume
\* payload.sessionId is the text raw; payload.resumeToken is the token tok
\* (0: missing, empty or no string)
\* a resume that accepts any token
anyTokenMatches(session, tok) == TRUE

\* session.hostResumeToken !== resumeToken is false
tokenMatches(session, tok) == session.hostResumeToken = tok

\* a resume that leaves the session's token as it was
resumeSessionKeepingToken(session, nextTok) ==
  [session EXCEPT !.hostDetachedAt = NoTime,
                  !.lastActivity = now]

\* the session after lines 365-367 of handleHostResume
resumeSession(session, nextTok) ==
  [session EXCEPT !.hostResumeToken = nextTok,
                  !.hostDetachedAt = NoTime,
                  !.lastActivity = now]

\* a resume that forgets the cached snapshot
noStatePacket(session) == <<>>

\* statePacket of handleHostResume: <<>> for null
statePacket(session) ==
  IF session.stateBlob # NoBlob /\ session.stateVersion # 0
  THEN <<[version |-> session.stateVersion, data |-> session.stateBlob,
          hash |-> session.stateHash]>>
  ELSE <<>>

handleHostResume(s, raw, tok) ==
  LET rawSessionId == TrimUpper(raw)
      fail(res, message) ==
        /\ sent' = Error(s, message)
        /\ last' = [op |-> "host:resume", sock |-> s, res |-> res,
                    code |-> rawSessionId, token |-> tok]
        /\ UNCHANGED <<meta, peers, sessions, order, nextToken, ready>>
  IN IF rawSessionId = "" \/ tok = 0
       THEN fail("missing", "Missing resume credentials.")
     ELSE IF rawSessionId \notin DOMAIN sessions
       THEN fail("not-found", "Session not found or expired.")
     ELSE IF ~tokenMatches(sessions[rawSessionId], tok)
       THEN fail("token-mismatch", "Resume token invalid.")
     ELSE IF hostSocket(sessions[rawSessionId]) # NoSocket
       THEN fail("host-connected", "Host already connected.")
     ELSE
       LET session == sessions[rawSessionId]
           host == session.host
           nextTok == nextToken
           readyFrame ==
             [type |-> "session:ready", sessionId |-> rawSessionId, role |-> "host",
              participantId |-> peers[host].participantId,
              peers |-> {buildPeerSnapshot(session.clients[p]) :
                           p \in DOMAIN session.clients},
              state |-> statePacket(session), intervalMs |-> session.locationIntervalMs,
              resumeToken |-> nextTok]
       IN /\ nextToken <= MaxTokens
          /\ nextToken' = nextToken + 1
          /\ peers' = [peers EXCEPT ![host].socket = s, ![host].resumeToken = nextTok]
          /\ sessions' = [sessions EXCEPT ![rawSessionId] = resumeSession(@, nextTok)]
          /\ meta' = attachSessionMeta(s, rawSessionId, host, peers[host], "host")
          /\ sent' = notifyClientsHostStatusR(ready, session, TRUE, "host-resumed")
                     \o send(s, readyFrame)
          /\ last' = [op |-> "host:resume", sock |-> s, res |-> "ok",
                      code |-> rawSessionId, token |-> tok,
                      detachedAt |-> session.hostDetachedAt]
          /\ UNCHANGED <<order, ready>>

HostResume(s, raw, tok) ==
  /\ Inbound(s)
  /\ handleHostResume(s, raw, tok)
  /\ Metered(incomingBytes([type |-> "host:resume", sessionId |-> raw,
                          resumeToken |-> tok]))

\* -------------------------------------------------------------- client:join
\* clientId is the id `CL-${generateLabel()}-${generateSuffix()}` draws
\* a colour index that is the cursor itself
cursorAsIndex(colorCursor) == colorCursor

\* session.colorCursor % colorPalette.length: the index of the colour drawn
paletteIndex(colorCursor) == colorCursor % PaletteLength

handleClientJoin(s, raw, clientId) ==
  LET fail(res, message) ==
        /\ sent' = Error(s, message)
        /\ last' = [op |-> "client:join", sock |-> s, res |-> res,
                    raw |-> raw, clientId |-> clientId]
        /\ UNCHANGED <<meta, peers, sessions, order, nextToken, ready>>
      normalizedId == TrimUpper(raw)
  IN IF raw = ""
       THEN fail("missing", "Missing session code.")
     ELSE IF normalizedId \notin DOMAIN sessions
       THEN fail("not-found", "Session not found or expired.")
     ELSE IF s \in DOMAIN meta
       THEN fail("already-bound", "Socket already in a session. Disconnect first.")
     ELSE
       LET session == sessions[normalizedId]
           clientPeer == [participantId |-> clientId,
                          color |-> paletteIndex(session.colorCursor), socket |-> s,
                          location |-> <<>>, lastLocationAt |-> 0, resumeToken |-> 0,
                          routes |-> <<>>, lastRoutesAt |-> 0, routesHash |-> NoHash]
           after == [mapSet(session, clientId, s) EXCEPT !.colorCursor = @ + 1,
                                                         !.lastActivity = now]
           snapshot == [id |-> clientId, color |-> clientPeer.color, role |-> "client",
                        location |-> <<>>, routes |-> <<>>]
       IN /\ peers' = Put(peers, s, clientPeer)
          /\ sessions' = [sessions EXCEPT ![normalizedId] = after]
          /\ meta' = attachSessionMeta(s, normalizedId, s, clientPeer, "client")
          /\ sent' = send(s, [type |-> "session:ready", sessionId |-> normalizedId,
                              role |-> "client", participantId |-> clientId,
                              peers |-> {}, state |-> <<>>,
                              intervalMs |-> session.locationIntervalMs])
                     \o sendToHost(session, [type |-> "session:peer-joined",
                                             participant |-> snapshot])
          /\ last' = [op |-> "client:join", sock |-> s, res |-> "ok",
                      raw |-> raw, clientId |-> clientId]
          /\ UNCHANGED <<order, nextToken, ready>>

ClientJoin(s, raw, clientId) ==
  /\ Inbound(s)
  /\ handleClientJoin(s, raw, clientId)
  /\ Metered(incomingBytes([type |-> "client:join", sessionId |-> raw]))

\* ----------------------------------------------------- participant:location
\* normalizeLocation(raw): <<>> for null
normalizeLocation(raw) ==
  IF ~raw.valid THEN <<>>
  ELSE <<[timestamp |-> IF raw.timestamp # <<>> THEN raw.timestamp[1] ELSE now]>>

\* a gate that lets every fix through
neverThrottled(peer, session) == FALSE

\* now - peer.lastLocationAt < session.locationIntervalMs
throttled(peer, session) == Less(now - peer.lastLocationAt, session.locationIntervalMs)

handleLocation(s, raw) ==
  LET code == ensureSession(s)
      done(res, out) ==
        /\ sent' = out
        /\ last' = [op |-> "participant:location", sock |-> s, res |-> res,
                    raw |-> raw,
                    prev |-> IF code = "" THEN 0 ELSE peers[meta[s].peer].lastLocationAt]
  IN IF code = ""
       THEN /\ done("not-joined", Error(s, "Not joined to a session."))
            /\ UNCHANGED <<meta, peers, sessions, order, nextToken, ready>>
     ELSE
       LET session == sessions[code]
           ref == meta[s].peer
           location == normalizeLocation(raw)
       IN IF throttled(peers[ref], session)
            THEN /\ done("throttled", <<>>)
                 /\ UNCHANGED <<meta, peers, sessions, order, nextToken, ready>>
          ELSE IF location = <<>>
            THEN /\ done("invalid", <<>>)
                 /\ UNCHANGED <<meta, peers, sessions, order, nextToken, ready>>
          ELSE
            /\ peers' = [peers EXCEPT ![ref].location = location,
                                      ![ref].lastLocationAt = now]
            /\ sessions' = [sessions EXCEPT ![code].lastActivity = now]
            /\ done("accepted",
                    IF meta[s].role = "client"
                    THEN sendToHost(session,
                           [type |-> "session:location",
                            participantId |-> peers[ref].participantId,
                            location |-> location, role |-> "client"])
                    ELSE <<>>)
            /\ UNCHANGED <<meta, order, nextToken, ready>>

Location(s, raw) ==
  /\ Inbound(s)
  /\ handleLocation(s, raw)
  /\ Metered(incomingBytes([type |-> "participant:location", location |-> raw]))

\* --------------------------------------------------------------- host:state
\* a handler that compares no hashes
neverSameState(session, data) == FALSE

\* hash === session.stateHash
sameState(session, data) == Sha1(data) = session.stateHash

\* an upload that replaces the cached snapshot and keeps its version
acceptStateSameVersion(session, data) ==
  [session EXCEPT !.stateBlob = data,
                  !.stateHash = Sha1(data),
                  !.lastActivity = now]

\* the session after lines 512-515 of handleHostState
acceptState(session, data) ==
  [session EXCEPT !.stateBlob = data,
                  !.stateHash = Sha1(data),
                  !.stateVersion = @ + 1,
                  !.lastActivity = now]

handleHostState(s, data) ==
  LET code == ensureSession(s)
      fail(res, message) ==
        /\ sent' = Error(s, message)
        /\ last' = [op |-> "host:state", sock |-> s, res |-> res, data |-> data]
        /\ UNCHANGED <<meta, peers, sessions, order, nextToken, ready>>
  IN IF code = ""
       THEN fail("not-joined", "Not joined to a session.")
     ELSE IF meta[s].role # "host"
       THEN fail("not-host", "Only the host can publish state.")
     ELSE IF data = "<missing>" \/ data = ""
       THEN fail("missing", "Missing compressed payload.")
     ELSE IF ~Decompresses(data)
       THEN fail("undecodable", "State payload could not be decompressed.")
     ELSE IF sameState(sessions[code], data)
       THEN /\ sent' = <<>>
            /\ last' = [op |-> "host:state", sock |-> s, res |-> "duplicate",
                        data |-> data]
            /\ UNCHANGED <<meta, peers, sessions, order, nextToken, ready>>
     ELSE
       LET after == acceptState(sessions[code], data)
       IN /\ sessions[code].stateVersion < MaxVersion
          /\ sessions' = [sessions EXCEPT ![code] = after]
          /\ sent' = sendToHost(after, [type |-> "session:state",
                                        version |-> after.stateVersion,
                                        data |-> data, hash |-> Sha1(data)])
          /\ last' = [op |-> "host:state", sock |-> s, res |-> "ok", data |-> data]
          /\ UNCHANGED <<meta, peers, order, nextToken, ready>>

HostState(s, data) ==
  /\ Inbound(s)
  /\ handleHostState(s, data)
  /\ Metered(incomingBytes([type |-> "host:state", data |-> data]))

\* ------------------------------------------------------------ host:interval
\* payload.intervalMs and payload.seconds after Number(): <<n>>, or NaN
handleHostInterval(s, intervalMs, seconds) ==
  LET code == ensureSession(s)
      requested == IF intervalMs = NaN /\ seconds # NaN
                   THEN <<seconds[1] * 1000>> ELSE intervalMs
      fail(res, message) ==
        /\ sent' = Error(s, message)
        /\ last' = [op |-> "host:interval", sock |-> s, res |-> res,
                    intervalMs |-> intervalMs, seconds |-> seconds]
        /\ UNCHANGED <<meta, peers, sessions, order, nextToken, ready>>
  IN IF code = ""
       THEN fail("not-joined", "Not joined to a session.")
     ELSE IF meta[s].role # "host"
       THEN fail("not-host", "Only the host can update cadence.")
     ELSE IF requested = NaN \/ requested[1] <= 0
       THEN fail("invalid", "Invalid interval value.")
     ELSE
       LET nextInterval == <<clampIntervalMs(requested[1])>>
           after == [sessions[code] EXCEPT !.locationIntervalMs = nextInterval]
       IN IF sessions[code].locationIntervalMs = nextInterval
          THEN /\ sent' = <<>>
               /\ last' = [op |-> "host:interval", sock |-> s, res |-> "unchanged",
                           intervalMs |-> intervalMs, seconds |-> seconds]
               /\ UNCHANGED <<meta, peers, sessions, order, nextToken, ready>>
          ELSE /\ sessions' = [sessions EXCEPT ![code] = after]
               /\ sent' = notifyIntervalChange(after)
               /\ last' = [op |-> "host:interval", sock |-> s, res |-> "ok",
                           intervalMs |-> intervalMs, seconds |-> seconds]
               /\ UNCHANGED <<meta, peers, order, nextToken, ready>>

HostInterval(s, intervalMs, seconds) ==
  /\ Inbound(s)
  /\ handleHostInterval(s, intervalMs, seconds)
  /\ Metered(incomingBytes([type |-> "host:interval", intervalMs |-> intervalMs,
                          seconds |-> seconds]))

\* ------------------------------------------------------------ client:routes
\* sanitizeRouteItem(item, index): <<>> for null; index counts from 0
sanitizeRouteItem(item, index) ==
  IF ~item.valid THEN <<>>
  ELSE <<[id |-> IF item.id # <<>> THEN item.id ELSE <<"PT", index>>]>>

\* every item of the route, none cut off
sanitizeItemsUncut(items) ==
  Flatten([i \in 1..Len(items) |-> sanitizeRouteItem(items[i], i - 1)])

\* route.items.slice(0, MAX_ROUTE_POINTS).map(sanitizeRouteItem).filter(Boolean)
sanitizeItems(items) ==
  LET cut == SubSeq(items, 1, Min(Len(items), MAX_ROUTE_POINTS))
  IN Flatten([i \in 1..Len(cut) |-> sanitizeRouteItem(cut[i], i - 1)])

\* the loop of sanitizeClientRoutes from index idx (counted from 1) on
RECURSIVE sanitizeFrom(_, _, _)
sanitizeFrom(rawRoutes, idx, safe) ==
  IF idx > Len(rawRoutes) \/ Len(safe) >= MAX_ROUTES_PER_CLIENT THEN safe
  ELSE LET route == rawRoutes[idx]
           items == IF route.object /\ route.isList
                    THEN sanitizeItems(route.items) ELSE <<>>
       IN IF ~route.object \/ items = <<>>
          THEN sanitizeFrom(rawRoutes, idx + 1, safe)
          ELSE sanitizeFrom(rawRoutes, idx + 1,
                 Append(safe, [id |-> IF route.id # <<>> THEN route.id
                                      ELSE <<"R", Len(safe) + 1>>,
                               items |-> items]))

\* sanitizeClientRoutes(rawRoutes)
sanitizeClientRoutes(raw) ==
  IF ~raw.isList THEN <<>> ELSE sanitizeFrom(raw.routes, 1, <<>>)

\* hashRoutes(routes): SHA-1 of the JSON text, injective on the sanitized lists
hashRoutes(routes) == <<"sha1", routes>>

handleClientRoutes(s, raw) ==
  LET code == ensureSession(s)
      fail(res, message) ==
        /\ sent' = Error(s, message)
        /\ last' = [op |-> "client:routes", sock |-> s, res |-> res, raw |-> raw]
        /\ UNCHANGED <<meta, peers, sessions, order, nextToken, ready>>
  IN IF code = ""
       THEN fail("not-joined", "Not joined to a session.")
     ELSE IF meta[s].role # "client"
       THEN fail("not-client", "Only field devices can upload routes.")
     ELSE
       LET ref == meta[s].peer
           sanitized == sanitizeClientRoutes(raw)
           hash == IF Len(sanitized) > 0 THEN hashRoutes(sanitized) ELSE NoHash
       IN IF hash # NoHash /\ peers[ref].routesHash = hash
          THEN /\ sent' = <<>>
               /\ last' = [op |-> "client:routes", sock |-> s, res |-> "duplicate",
                           raw |-> raw]
               /\ UNCHANGED <<meta, peers, sessions, order, nextToken, ready>>
          ELSE /\ peers' = [peers EXCEPT ![ref].routes = IF Len(sanitized) > 0
                                                          THEN <<sanitized>> ELSE <<>>,
                                         ![ref].routesHash = hash,
                                         ![ref].lastRoutesAt = now]
               /\ sessions' = [sessions EXCEPT ![code].lastActivity = now]
               /\ sent' = sendToHost(sessions[code],
                            [type |-> "session:peer-routes",
                             participantId |-> peers[ref].participantId,
                             routes |-> sanitized])
               /\ last' = [op |-> "client:routes", sock |-> s, res |-> "ok",
                           raw |-> raw, prev |-> peers[ref].lastRoutesAt]
               /\ UNCHANGED <<meta, order, nextToken, ready>>

ClientRoutes(s, raw) ==
  /\ Inbound(s)
  /\ handleClientRoutes(s, raw)
  /\ Metered(incomingBytes([type |-> "client:routes", routes |-> raw]))

\* ------------------------------------------------------------ host:shutdown
handleHostShutdown(s) ==
  LET code == ensureSession(s)
  IN IF code = ""
       THEN /\ sent' = <<>>
            /\ last' = [op |-> "host:shutdown", sock |-> s, res |-> "not-joined"]
            /\ UNCHANGED <<meta, peers, sessions, order, nextToken, ready>>
     ELSE IF meta[s].role # "host"
       THEN /\ sent' = Error(s, "Only the host can end a session.")
            /\ last' = [op |-> "host:shutdown", sock |-> s, res |-> "not-host"]
            /\ UNCHANGED <<meta, peers, sessions, order, nextToken, ready>>
     ELSE
       LET st == terminateSession([sessions |-> sessions, order |-> order,
                                   ready |-> ready, sent |-> <<>>, ended |-> <<>>],
                                  code, "host-ended")
       IN /\ sessions' = st.sessions
          /\ order' = st.order
          /\ ready' = st.ready
          /\ sent' = st.sent
          /\ last' = [op |-> "host:shutdown", sock |-> s, res |-> "ok",
                      ended |-> st.ended]
          /\ UNCHANGED <<meta, peers, nextToken>>

HostShutdown(s) ==
  /\ Inbound(s)
  /\ handleHostShutdown(s)
  /\ Metered(incomingBytes([type |-> "host:shutdown"]))

\* ------------------------------------------------------ participant:message
\* ------------------------------------------------------------ traffic meter
\* Every frame action above counts its own traffic (Metered).  The three
\* actions below apply recordTraffic, send and summarizeTraffic on their
\* own, to arguments the frame actions do not reach: bytes that are no
\* frame's length, a socket that is absent, every /data text.
\* one call of recordTraffic
RecordTraffic(direction, bytes) ==
  /\ last = Idle
  /\ LET key == now \div 1000
     IN key \in DOMAIN trafficStats.buckets
          => trafficStats.buckets[key].in + trafficStats.buckets[key].out < MaxBytes
  /\ trafficStats' = recordTraffic(trafficStats, direction, bytes)
  /\ sent' = <<>>
  /\ last' = [op |-> "record", sock |-> NoSocket, res |-> "ok",
              direction |-> direction, bytes |-> bytes]
  /\ UNCHANGED <<env, now, ticks, ready, meta, peers, sessions, order, nextToken, isAlive>>

\* one call of send(socket, type, payload), with what it does to the meter:
\* nothing at all unless the socket is there and OPEN, else the frame's bytes
\* are recorded as outbound and the frame is written
Send(socket) ==
  /\ last = Idle
  /\ sent' = send(socket, [type |-> "session:heartbeat", timestamp |-> now])
  /\ Metered(0)
  /\ last' = [op |-> "send", sock |-> socket, res |-> "ok"]
  /\ UNCHANGED <<env, now, ticks, ready, meta, peers, sessions, order, nextToken,
                 isAlive>>

\* the /data command as far as the meter goes: the window of the text and
\* the summary the reply is written from
Summarize(text) ==
  /\ last = Idle
  /\ sent' = <<>>
  /\ last' = [op |-> "summarize", sock |-> NoSocket, res |-> "ok", text |-> text,
              summary |-> summarizeTraffic(trafficStats, windowArg(text))]
  /\ UNCHANGED <<env, now, ticks, ready, meta, peers, sessions, order, nextToken,
                 trafficStats, isAlive>>

\* payload.text.trim() on the texts the model sends
trimText(raw) ==
  CASE raw = "  " -> ""
    [] raw = " hello " -> "hello"
    [] OTHER -> raw

\* text.startsWith('/data') on the texts the model sends
startsWithData(text) == text \in DataTexts

handleMessage(s, raw) ==
  LET code == ensureSession(s)
      text == trimText(raw)
      done(res, out) ==
        /\ sent' = out
        /\ last' = [op |-> "participant:message", sock |-> s, res |-> res,
                    raw |-> raw]
        /\ UNCHANGED <<meta, peers, sessions, order, nextToken, ready>>
  IN IF code = ""
       THEN done("not-joined", Error(s, "Not joined to a session."))
     ELSE IF text = ""
       THEN done("empty", <<>>)
     ELSE IF startsWithData(text)
       THEN done("data", send(s, [type |-> "session:message",
                                  participantId |-> "server", role |-> "system",
                                  summary |->
                                    IF trafficStats = AnyMeter THEN AnySummary
                                    ELSE summarizeTraffic(
                                           received(trafficStats,
                                             incomingBytes([type |-> "participant:message",
                                                            text |-> raw])),
                                           windowArg(text)),
                                  timestamp |-> now]))
     ELSE done("ok", broadcast(sessions[code],
                       [type |-> "session:message",
                        participantId |-> peers[meta[s].peer].participantId,
                        text |-> text, role |-> meta[s].role, timestamp |-> now]))

Message(s, raw) ==
  /\ Inbound(s)
  /\ handleMessage(s, raw)
  /\ Metered(incomingBytes([type |-> "participant:message", text |-> raw]))

\* ---------------------------------------------------- participant:heartbeat
\* peer.lastHeartbeatAt, which the handler also writes, is read nowhere and is
\* left out
handleHeartbeat(s) ==
  LET code == ensureSession(s)
  IN IF code = ""
       THEN /\ sent' = Error(s, "Not joined to a session.")
            /\ last' = [op |-> "participant:heartbeat", sock |-> s, res |-> "not-joined"]
            /\ UNCHANGED <<meta, peers, sessions, order, nextToken, ready>>
     ELSE /\ sessions' = [sessions EXCEPT ![code].lastActivity = now]
          /\ sent' = send(s, [type |-> "session:heartbeat", timestamp |-> now])
          /\ last' = [op |-> "participant:heartbeat", sock |-> s, res |-> "ok"]
          /\ UNCHANGED <<meta, peers, order, nextToken, ready>>

Heartbeat(s) ==
  /\ Inbound(s)
  /\ handleHeartbeat(s)
  /\ Metered(incomingBytes([type |-> "participant:heartbeat"]))

\* ------------------------------------------------- other frames, and close
\* the default branch of the dispatch switch
UnknownType(s, type) ==
  /\ Inbound(s)
  /\ sent' = Error(s, "Unknown message type: " \o type)
  /\ last' = [op |-> "unknown", sock |-> s, res |-> "error", type |-> type]
  /\ UNCHANGED <<meta, peers, sessions, order, nextToken, ready>>
  /\ Metered(incomingBytes([type |-> type]))

\* JSON.parse throws; the frame is the one character {
InvalidJson(s) ==
  /\ Inbound(s)
  /\ sent' = Error(s, "Invalid JSON payload.")
  /\ last' = [op |-> "invalid-json", sock |-> s, res |-> "error"]
  /\ UNCHANGED <<meta, peers, sessions, order, nextToken, ready>>
  /\ Metered(1)

\* An exception that leaves the 'message' listener is caught by nobody (the
\* module registers no handler for uncaught exceptions), so node ends the
\* process: the frame is unanswered, every transport drops and the registry
\* is gone with the process.
uncaught(s, op, input) ==
  /\ sent' = <<>>
  /\ ready' = [t \in Sockets |-> "closed"]
  /\ meta' = <<>>
  /\ peers' = <<>>
  /\ sessions' = <<>>
  /\ order' = <<>>
  /\ last' = [op |-> op, sock |-> s, res |-> "threw", input |-> input]
  /\ UNCHANGED nextToken

\* the frame is the JSON text null: JSON.parse returns null and data.type,
\* read after the try/catch, throws a TypeError
NullJson(s) ==
  /\ Inbound(s)
  /\ uncaught(s, "null", "null")
  /\ Metered(Len("null"))

\* client:join whose payload.sessionId is truthy and not a string (a number,
\* true, an object): it passes !requestedId and requestedId.trim is not a
\* function
ClientJoinNonString(s, raw) ==
  /\ Inbound(s)
  /\ uncaught(s, "client:join", raw)
  /\ Metered(incomingBytes([type |-> "client:join", sessionId |-> raw]))

\* a detach that forgets to stamp the time of the detach
detachHostUnstamped(session) == [session EXCEPT !.lastActivity = now]

\* the session after lines 230-231 of detachHost
detachHost(session) ==
  [session EXCEPT !.hostDetachedAt = now, !.lastActivity = now]

\* dropParticipant(session, participantId), the readyStates being rdy
dropParticipant(rdy, s, code, participantId) ==
  LET session == sessions[code]
      host == session.host
  IN IF peers[host].participantId = participantId
     THEN \* detachHost(session)
          /\ peers' = [peers EXCEPT ![host].socket = NoSocket]
          /\ sessions' = [sessions EXCEPT ![code] = detachHost(@)]
          /\ sent' = notifyClientsHostStatusR(rdy, session, FALSE, "host-disconnected")
          /\ last' = [op |-> "close", sock |-> s, res |-> "host-detached"]
     ELSE IF participantId \in DOMAIN session.clients
     THEN /\ sessions' = [sessions EXCEPT ![code] = mapDelete(@, participantId)]
          /\ sent' = sendToHostR(rdy, session,
                       [type |-> "session:peer-left", participantId |-> participantId])
          /\ last' = [op |-> "close", sock |-> s, res |-> "client-removed"]
          /\ UNCHANGED peers
     ELSE /\ sent' = <<>>
          /\ last' = [op |-> "close", sock |-> s, res |-> "nobody"]
          /\ UNCHANGED <<peers, sessions>>

\* The peer starts the close of transport s (its close frame arrives, or its
\* connection ends): readyState is CLOSING from now on, so send() skips the
\* transport, and the close event follows later; the handlers of other
\* transports and the timers run in between.  No handler of the relay runs.
Closing(s) ==
  /\ last = Idle
  /\ ready[s] = "open"
  /\ ready' = [ready EXCEPT ![s] = "ending"]
  /\ UNCHANGED <<env, now, ticks, meta, peers, sessions, order, nextToken,
                 trafficStats, isAlive, sent, last>>

\* socket.on('close'): the transport is CLOSED when the handler runs
Close(s) ==
  /\ last = Idle
  /\ Connected(s)
  /\ ready' = [ready EXCEPT ![s] = "closed"]
  /\ IF ensureSession(s) = ""
     THEN /\ sent' = <<>>
          /\ last' = [op |-> "close", sock |-> s, res |-> "unbound"]
          /\ UNCHANGED <<peers, sessions>>
     ELSE dropParticipant([ready EXCEPT ![s] = "closed"], s, ensureSession(s),
                          meta[s].participantId)
  /\ Metered(0)
  /\ UNCHANGED <<env, now, ticks, meta, order, nextToken, isAlive>>

\* ---------------------------------------------------------- liveness probe
\* wss.clients: the transports that are connected and whose close event has
\* not been raised yet
wssClients == {s \in Sockets : Connected(s)}

\* socket.isAlive === false
dead(s) == isAlive[s] = FALSE

\* heartbeat(), run by its timer: socket.terminate() leaves the transport
\* CLOSING until its close event; socket.ping() writes a ping, a low-level
\* frame that is no frame of `sent`, to a transport that is OPEN
heartbeat ==
  LET terminated == {s \in wssClients : dead(s)}
      pinged == wssClients \ terminated
  IN /\ last = Idle
     /\ ready' = [s \in Sockets |->
                    IF s \in terminated /\ ready[s] = "open" THEN "closing" ELSE ready[s]]
     /\ isAlive' = [s \in Sockets |-> IF s \in pinged THEN FALSE ELSE isAlive[s]]
     /\ sent' = <<>>
     /\ last' = [op |-> "probe", sock |-> NoSocket, res |-> "ok",
                 terminated |-> terminated, pinged |-> pinged]
     /\ UNCHANGED <<env, now, ticks, meta, peers, sessions, order, nextToken,
                    trafficStats>>

\* socket.on('pong')
Pong(s) ==
  /\ last = Idle
  /\ Receiving(s)
  /\ isAlive' = [isAlive EXCEPT ![s] = TRUE]
  /\ sent' = <<>>
  /\ last' = [op |-> "pong", sock |-> s, res |-> "ok"]
  /\ UNCHANGED <<env, now, ticks, ready, meta, peers, sessions, order, nextToken,
                 trafficStats>>

\* ------------------------------------------------------------ expiry sweep
\* a sweep that ends a detached session when the grace is reached, not passed
hostTimedOutAtGrace(session) ==
  /\ hostSocket(session) = NoSocket
  /\ session.hostDetachedAt # NoTime
  /\ now - session.hostDetachedAt >= HOST_RESUME_GRACE_MS

\* !session.host?.socket && session.hostDetachedAt &&
\*   now - session.hostDetachedAt > HOST_RESUME_GRACE_MS
hostTimedOut(session) ==
  /\ hostSocket(session) = NoSocket
  /\ session.hostDetachedAt # NoTime
  /\ now - session.hostDetachedAt > HOST_RESUME_GRACE_MS

\* a sweep that expires nothing
neverExpired(session) == FALSE

\* session.lastActivity < cutoff, cutoff being now - SESSION_TTL_MS
expired(session) == session.lastActivity < now - SESSION_TTL_MS

\* the body of sessions.forEach in pruneSessions, for the codes in order
RECURSIVE pruneFrom(_, _)
pruneFrom(codes, st) ==
  IF codes = <<>> THEN st
  ELSE LET code == Head(codes)
           session == st.sessions[code]
       IN IF hostTimedOut(session)
          THEN pruneFrom(Tail(codes), terminateSession(st, code, "host-timeout"))
          ELSE IF expired(session)
          THEN pruneFrom(Tail(codes), terminateSession(st, code, "session-expired"))
          ELSE pruneFrom(Tail(codes), st)

pruneSessions ==
  LET st == pruneFrom(order, [sessions |-> sessions, order |-> order,
                              ready |-> ready, sent |-> <<>>, ended |-> <<>>])
  IN /\ last = Idle
     /\ sessions' = st.sessions
     /\ order' = st.order
     /\ ready' = st.ready
     /\ sent' = st.sent
     /\ last' = [op |-> "prune", sock |-> NoSocket,
                 res |-> IF st.order = order THEN "kept" ELSE "terminated",
                 ended |-> st.ended]
     /\ Metered(0)
     /\ UNCHANGED <<env, now, ticks, meta, peers, nextToken, isAlive>>

\* The handler returns to the event loop: the frames it wrote are on the wire.
\* What nothing refers to any more is dropped from the state: the meta of a
\* CLOSED transport (it raises no further event), and the peer objects that
\* neither a session of the registry nor the meta of a live transport holds.
Return ==
  LET liveMeta == [s \in {x \in DOMAIN meta : ready[x] # "closed"} |-> meta[s]]
      held == {sessions[c].host : c \in DOMAIN sessions}
              \cup UNION {{sessions[c].clients[p] : p \in DOMAIN sessions[c].clients} :
                          c \in DOMAIN sessions}
              \cup {liveMeta[s].peer : s \in DOMAIN liveMeta}
  IN /\ last # Idle
     /\ last' = Idle
     /\ sent' = <<>>
     /\ meta' = liveMeta
     /\ peers' = [r \in DOMAIN peers \cap held |-> peers[r]]
     /\ UNCHANGED <<env, now, ticks, ready, sessions, order, nextToken, trafficStats, isAlive>>

\* --------------------------------------------------------- specifications
\* One session code: the life of a session under detach, resume, join, leave,
\* shutdown and the expiry sweep, the clock moving past the resume grace.
Next ==
  \/ \E s \in Sockets : Connect(s)
  \/ \E s \in Sockets : HostInit(s, "AB", "HQ-222")
  \/ \E s \in Sockets, raw \in {"AB", "CD"}, tok \in 0..MaxTokens :
       HostResume(s, raw, tok)
  \/ \E s \in Sockets, clientId \in ClientIds : ClientJoin(s, " ab ", clientId)
  \/ \E s \in Sockets : HostShutdown(s)
  \/ \E s \in Sockets : Heartbeat(s)
  \/ \E s \in Sockets : Closing(s)
  \/ \E s \in Sockets : Close(s)
  \/ Tick(HOST_RESUME_GRACE_MS + 1)
  \/ pruneSessions
  \/ Return

Spec == InitAny({<<10000>>}) /\ [][Next]_vars

\* Two session codes, the clock standing still: which transport is bound to
\* which peer of which session.
NextRegistry ==
  \/ \E s \in Sockets : Connect(s)
  \/ \E s \in Sockets, sessionId \in Codes : HostInit(s, sessionId, "HQ-222")
  \/ \E s \in Sockets, raw \in {"AB", "CD"}, tok \in 0..MaxTokens :
       HostResume(s, raw, tok)
  \/ \E s \in Sockets, raw \in RawSessionIds, clientId \in ClientIds :
       ClientJoin(s, raw, clientId)
  \/ \E s \in Sockets : HostShutdown(s)
  \/ \E s \in Sockets : Closing(s)
  \/ \E s \in Sockets : Close(s)
  \/ Return

SpecRegistry == InitAny({<<10000>>}) /\ [][NextRegistry]_vars

\* One session: the host's state snapshot and cadence across detach and resume.
NextState ==
  \/ \E s \in Sockets : Connect(s)
  \/ \E s \in Sockets : HostInit(s, "AB", "HQ-222")
  \/ \E s \in Sockets, tok \in 1..MaxTokens : HostResume(s, "AB", tok)
  \/ \E s \in Sockets : ClientJoin(s, "AB", "CL-333-44")
  \/ \E s \in Sockets, data \in RawStateData : HostState(s, data)
  \/ \E s \in Sockets : HostInterval(s, <<7000>>, NaN)
  \/ \E s \in Sockets : HostShutdown(s)
  \/ \E s \in Sockets : Closing(s)
  \/ \E s \in Sockets : Close(s)
  \/ Tick(2000)
  \/ Return

SpecState == InitAny({<<10000>>}) /\ [][NextState]_vars

\* One session under every configured default cadence, the clock standing
\* still: what host:interval makes of each request.
NextInterval ==
  \/ \E s \in Sockets : Connect(s)
  \/ \E s \in Sockets : HostInit(s, "AB", "HQ-222")
  \/ \E s \in Sockets, clientId \in ClientIds : ClientJoin(s, "AB", clientId)
  \/ \E s \in Sockets, intervalMs \in RawNumbers, seconds \in RawSeconds :
       HostInterval(s, intervalMs, seconds)
  \/ \E s \in Sockets : Closing(s)
  \/ \E s \in Sockets : Close(s)
  \/ Return

SpecInterval == InitAny(EnvIntervals) /\ [][NextInterval]_vars

\* One session: the location gate, the clock moving in steps below and at the
\* minimum interval, the default cadence unset or no number.
NextCadence ==
  \/ \E s \in Sockets : Connect(s)
  \/ \E s \in Sockets : HostInit(s, "AB", "HQ-222")
  \/ \E s \in Sockets : ClientJoin(s, "AB", "CL-333-44")
  \/ \E s \in Sockets, intervalMs \in {<<4000>>, <<7000>>} :
       HostInterval(s, intervalMs, NaN)
  \/ \E s \in Sockets, raw \in RawLocations : Location(s, raw)
  \/ \E d \in TickSteps : Tick(d)
  \/ Return

SpecCadence == InitAny({<<10000>>, NaN}) /\ [][NextCadence]_vars

\* Every command, on one session, the clock standing still.
NextAll ==
  \/ \E s \in Sockets : Connect(s)
  \/ \E s \in Sockets : HostInit(s, "AB", "HQ-222")
  \/ \E s \in Sockets, tok \in 1..MaxTokens : HostResume(s, "AB", tok)
  \/ \E s \in Sockets : ClientJoin(s, "AB", "CL-333-44")
  \/ \E s \in Sockets : Location(s, [valid |-> TRUE, timestamp |-> <<>>])
  \/ \E s \in Sockets : HostState(s, "B1")
  \/ \E s \in Sockets : HostInterval(s, <<7000>>, NaN)
  \/ \E s \in Sockets : ClientRoutes(s, [isList |-> TRUE, routes |-> <<RouteA>>])
  \/ \E s \in Sockets : HostShutdown(s)
  \/ \E s \in Sockets, text \in {"hello", "/data"} : Message(s, text)
  \/ \E s \in Sockets : Heartbeat(s)
  \/ \E s \in Sockets, type \in UnknownTypes : UnknownType(s, type)
  \/ \E s \in Sockets : InvalidJson(s)
  \/ \E s \in Sockets : NullJson(s)
  \/ \E s \in Sockets, raw \in NonStringSessionIds : ClientJoinNonString(s, raw)
  \/ \E s \in Sockets : Closing(s)
  \/ \E s \in Sockets : Close(s)
  \/ pruneSessions
  \/ Return

SpecAll == InitAny({<<10000>>}) /\ [][NextAll]_vars

\* One session: clients upload every kind of route payload, the clock moving
\* in steps of two seconds.
NextRoutes ==
  \/ \E s \in Sockets : Connect(s)
  \/ \E s \in Sockets : HostInit(s, "AB", "HQ-222")
  \/ \E s \in Sockets : ClientJoin(s, "AB", "CL-333-44")
  \/ \E s \in Sockets, raw \in RawRoutes : ClientRoutes(s, raw)
  \/ \E s \in Sockets : Closing(s)
  \/ \E s \in Sockets : Close(s)
  \/ Tick(2000)
  \/ Return

SpecRoutes == InitAny({<<10000>>}) /\ [][NextRoutes]_vars

\* Two sessions side by side, the clock standing still: messages, heartbeats,
\* shutdowns and unknown commands from hosts, clients and unbound transports.
NextRelay ==
  \/ \E s \in Sockets : Connect(s)
  \/ \E s \in Sockets, sessionId \in Codes : HostInit(s, sessionId, "HQ-222")
  \/ \E s \in Sockets, raw \in {"AB", "CD"}, clientId \in ClientIds :
       ClientJoin(s, raw, clientId)
  \/ \E s \in Sockets, raw \in RawTexts : Message(s, raw)
  \/ \E s \in Sockets : Heartbeat(s)
  \/ \E s \in Sockets : HostShutdown(s)
  \/ \E s \in Sockets, type \in UnknownTypes : UnknownType(s, type)
  \/ \E s \in Sockets : Closing(s)
  \/ \E s \in Sockets : Close(s)
  \/ Return

SpecRelay == InitAny({<<10000>>}) /\ [][NextRelay]_vars

\* The liveness probe over one session: transports connect, bind as host or
\* client, answer pings or not, send heartbeat frames, and close.
NextProbe ==
  \/ \E s \in Sockets : Connect(s)
  \/ \E s \in Sockets : HostInit(s, "AB", "HQ-222")
  \/ \E s \in Sockets, clientId \in ClientIds : ClientJoin(s, "AB", clientId)
  \/ \E s \in Sockets : Heartbeat(s)
  \/ \E s \in Sockets : Pong(s)
  \/ heartbeat
  \/ \E s \in Sockets : Closing(s)
  \/ \E s \in Sockets : Close(s)
  \/ Return

SpecProbe == InitAny({<<10000>>}) /\ [][NextProbe]_vars

\* One session: the location gate after a change of interval, the clock
\* moving in steps that add up to the new interval, transports closing.
NextGate ==
  \/ \E s \in Sockets : Connect(s)
  \/ \E s \in Sockets : HostInit(s, "AB", "HQ-222")
  \/ \E s \in Sockets : ClientJoin(s, "AB", "CL-333-44")
  \/ \E s \in Sockets : HostInterval(s, <<7000>>, NaN)
  \/ \E s \in Sockets, valid \in BOOLEAN :
       Location(s, [valid |-> valid, timestamp |-> <<>>])
  \/ \E d \in TickSteps : Tick(d)
  \/ \E s \in Sockets : Closing(s)
  \/ \E s \in Sockets : Close(s)
  \/ Return

SpecGate == InitAny({<<10000>>}) /\ [][NextGate]_vars

\* One session whose host comes and goes: frames for the host are caused
\* while it is bound and while it is detached, and send is called on
\* transports in every readyState and on no transport.  The server is
\* followed twice: from the start of the process, its meter counting every
\* byte until MaxMeter bytes have passed, and from any later moment, when
\* the meter has counted some traffic the model does not follow.
MeterBelow ==
  IF trafficStats = AnyMeter THEN TRUE
  ELSE trafficStats.bytesIn + trafficStats.bytesOut < MaxMeter

NextSend ==
  \/ MeterBelow /\ \E s \in Sockets : Connect(s)
  \/ MeterBelow /\ \E s \in Sockets : HostInit(s, "AB", "HQ-222")
  \/ MeterBelow /\ \E s \in Sockets, tok \in 1..MaxTokens : HostResume(s, "AB", tok)
  \/ MeterBelow /\ \E s \in Sockets : ClientJoin(s, "AB", "CL-333-44")
  \/ MeterBelow /\ \E s \in Sockets : Location(s, [valid |-> TRUE, timestamp |-> <<>>])
  \/ MeterBelow /\ \E s \in Sockets : ClientRoutes(s, [isList |-> TRUE, routes |-> <<RouteA>>])
  \/ MeterBelow /\ \E s \in Sockets : Message(s, "hello")
  \/ MeterBelow /\ \E socket \in Sockets \cup {NoSocket} : Send(socket)
  \/ MeterBelow /\ \E s \in Sockets : Closing(s)
  \/ MeterBelow /\ \E s \in Sockets : Close(s)
  \/ Return

SpecSend == (Init \/ InitAny({<<10000>>})) /\ [][NextSend]_vars

\* One session seen through its lastActivity: every command that stamps it
\* and every command that does not, from a host's transport and one other,
\* the clock moving by one interval.
NextActivity ==
  \/ \E s \in {1, 2} : Connect(s)
  \/ \E s \in {1, 2} : HostInit(s, "AB", "HQ-222")
  \/ \E s \in {1, 2}, tok \in 1..MaxTokens : HostResume(s, "AB", tok)
  \/ \E s \in {1, 2} : ClientJoin(s, "AB", "CL-333-44")
  \/ \E s \in {1, 2}, valid \in BOOLEAN :
       Location(s, [valid |-> valid, timestamp |-> <<>>])
  \/ \E s \in {1, 2} : HostState(s, "B1")
  \/ \E s \in {1, 2} : HostInterval(s, <<7000>>, NaN)
  \/ \E s \in {1, 2}, raw \in RawRoutes : ClientRoutes(s, raw)
  \/ \E s \in {1, 2} : Message(s, "hello")
  \/ \E s \in {1, 2} : Heartbeat(s)
  \/ Tick(10000)
  \/ \E s \in {1, 2} : Closing(s)
  \/ \E s \in {1, 2} : Close(s)
  \/ Return

SpecActivity == InitAny({<<10000>>}) /\ [][NextActivity]_vars

\* Frames of every shape: text that is no JSON, JSON that is no object,
\* commands the switch does not know, joins whose session code is missing,
\* unknown, known or not a string, and well-formed commands around them.
NextFrames ==
  \/ \E s \in Sockets : Connect(s)
  \/ \E s \in Sockets : HostInit(s, "AB", "HQ-222")
  \/ \E s \in Sockets, raw \in RawSessionIds : ClientJoin(s, raw, "CL-333-44")
  \/ \E s \in Sockets, raw \in NonStringSessionIds : ClientJoinNonString(s, raw)
  \/ \E s \in Sockets : NullJson(s)
  \/ \E s \in Sockets : InvalidJson(s)
  \/ \E s \in Sockets, type \in UnknownTypes : UnknownType(s, type)
  \/ \E s \in Sockets, text \in {"", "hello"} : Message(s, text)
  \/ \E s \in Sockets : Heartbeat(s)
  \/ \E s \in Sockets : Closing(s)
  \/ \E s \in Sockets : Close(s)
  \/ Return

SpecFrames == InitAny({<<10000>>}) /\ [][NextFrames]_vars

\* how many clients have joined and left the session before the first event
JoinedBefore == {0, 9}

\* the relay when transport 1 has registered session AB with host:init and k
\* clients have since joined and left: the session's colour cursor is k
InitColours(k) ==
  LET hostPeer == [participantId |-> "HQ-222", color |-> -1, socket |-> 1,
                   location |-> <<>>, lastLocationAt |-> 0, resumeToken |-> 1,
                   routes |-> <<>>, lastRoutesAt |-> 0, routesHash |-> NoHash]
      session == [host |-> 1, clients |-> <<>>, clientKeys |-> <<>>, stateVersion |-> 0,
                  stateBlob |-> NoBlob, stateHash |-> NoHash,
                  lastActivity |-> T0, colorCursor |-> k,
                  locationIntervalMs |-> <<10000>>,
                  hostResumeToken |-> 1, hostDetachedAt |-> NoTime]
  IN /\ env = <<10000>>
     /\ now = T0
     /\ trafficStats = AnyMeter
     /\ ticks = 0
     /\ ready = [s \in Sockets |-> IF s = 1 THEN "open" ELSE "none"]
     /\ isAlive = [s \in Sockets |-> TRUE]
     /\ meta = Put(<<>>, 1, [role |-> "host", sessionId |-> "AB",
                             participantId |-> "HQ-222", peer |-> 1])
     /\ peers = Put(<<>>, 1, hostPeer)
     /\ sessions = Put(<<>>, "AB", session)
     /\ order = <<"AB">>
     /\ nextToken = 2
     /\ sent = <<>>
     /\ last = Idle

\* Joins to a session whose colour cursor is at the start or near the end of
\* the palette: joins that bind and joins that fail, and other commands.
NextColours ==
  \/ \E s \in Sockets : Connect(s)
  \/ \E s \in Sockets : HostInit(s, "CD", "HQ-223")
  \/ \E s \in Sockets, raw \in RawSessionIds, clientId \in ClientIds :
       ClientJoin(s, raw, clientId)
  \/ \E s \in Sockets : Heartbeat(s)
  \/ \E s \in Sockets : Message(s, "hello")
  \/ \E s \in Sockets : Closing(s)
  \/ \E s \in Sockets : Close(s)
  \/ Return

SpecColours == (\E k \in JoinedBefore : InitColours(k)) /\ [][NextColours]_vars

\* The traffic meter alone, from zero, three and MAX_TRAFFIC_WINDOW_SECONDS
\* seconds of traffic: bytes are recorded, summaries asked for, and the clock
\* moves by a second or past the whole window.
NextTraffic ==
  \/ \E direction \in {"in", "out"}, bytes \in RawBytes : RecordTraffic(direction, bytes)
  \/ \E text \in DataTexts : Summarize(text)
  \/ \E d \in {1000, (MAX_TRAFFIC_WINDOW_SECONDS + 1) * 1000} : Tick(d)
  \/ Return

SpecTraffic == (\E k \in Preload : InitAfter({<<10000>>}, k)) /\ [][NextTraffic]_vars

\* One session across the resume grace: the clock moves by one grace and by
\* one millisecond, sweeps, joins, leaves and messages come in between.
NextGrace ==
  \/ \E s \in Sockets : Connect(s)
  \/ \E s \in Sockets : HostInit(s, "AB", "HQ-222")
  \/ \E s \in Sockets, tok \in 1..MaxTokens : HostResume(s, "AB", tok)
  \/ \E s \in Sockets : ClientJoin(s, "AB", "CL-333-44")
  \/ \E s \in Sockets : Message(s, "hello")
  \/ \E s \in Sockets : Closing(s)
  \/ \E s \in Sockets : Close(s)
  \/ \E d \in {1, HOST_RESUME_GRACE_MS} : Tick(d)
  \/ pruneSessions
  \/ Return

SpecGrace == InitAny({<<10000>>}) /\ [][NextGrace]_vars

\* The clock moves past a whole time to live while a session of the registry
\* is not yet due for the sweep, after the last of the clock steps that are
\* counted: time goes on however long the server has run.
Elapse ==
  /\ last = Idle
  /\ ticks = MaxTicks
  /\ \E c \in DOMAIN sessions : ~hostTimedOut(sessions[c]) /\ ~expired(sessions[c])
  /\ now' = now + SESSION_TTL_MS + 1
  /\ sent' = <<>>
  /\ last' = [op |-> "tick", sock |-> NoSocket, res |-> "ok"]
  /\ UNCHANGED <<env, ticks, ready, meta, peers, sessions, order, nextToken,
                 trafficStats, isAlive>>

\* One session and the expiry sweep: the clock moves by a millisecond, by the
\* resume grace and by the time to live, so that a sweep meets a session at,
\* before and past either limit; heartbeats come while the counted clock steps
\* last.  The clock keeps advancing, the sweep's timer keeps firing
\* (setInterval), and a handler that has started returns.
NextSweep ==
  \/ \E s \in {1, 2} : Connect(s)
  \/ \E s \in {1, 2} : HostInit(s, "AB", "HQ-222")
  \/ \E s \in {1, 2} : ClientJoin(s, "AB", "CL-333-44")
  \/ ticks < MaxTicks /\ \E s \in {1, 2} : Heartbeat(s)
  \/ \E s \in {1, 2} : Closing(s)
  \/ \E s \in {1, 2} : Close(s)
  \/ \E d \in {1, HOST_RESUME_GRACE_MS, SESSION_TTL_MS} : Tick(d)
  \/ Elapse
  \/ pruneSessions
  \/ Return

SpecSweep ==
  /\ InitAny({<<10000>>})
  /\ [][NextSweep]_vars
  /\ SF_vars(\E d \in {1, HOST_RESUME_GRACE_MS, SESSION_TTL_MS} : Tick(d))
  /\ SF_vars(Elapse)
  /\ SF_vars(pruneSessions)
  /\ WF_vars(Return)

\* ------------------------------------------------------------------ claims
\* C1. In every reachable state and for every session of the registry,
\* hostDetachedAt is null exactly when the host peer has a bound transport;
\* when the host has no transport, hostDetachedAt is a time of the server
\* clock that is not later than the current clock.
HostDetachedIffUnbound ==
  \A c \in DOMAIN sessions :
    /\ (sessions[c].hostDetachedAt = NoTime) <=> (hostSocket(sessions[c]) # NoSocket)
    /\ hostSocket(sessions[c]) = NoSocket =>
         /\ sessions[c].hostDetachedAt >= T0
         /\ sessions[c].hostDetachedAt <= now

\* C1 happens: a session whose token is not the first one issued has lost its
\* host, clients still in it, and the clock has moved on since the detach.
DetachedAgainAfterResume ==
  \E c \in DOMAIN sessions :
    /\ hostSocket(sessions[c]) = NoSocket
    /\ sessions[c].hostDetachedAt # NoTime
    /\ sessions[c].hostDetachedAt < now
    /\ sessions[c].hostResumeToken > 1
    /\ DOMAIN sessions[c].clients # {}

\* C2. stateVersion starts at 0; it is changed only by an accepted
\* host:state, always by exactly +1, and exactly when the cached blob and
\* hash are replaced; every session:state frame carries the version just
\* reached, so the versions of successive session:state frames strictly
\* increase.
StateVersionCountsUploads ==
  [][\A c \in DOMAIN sessions' :
       LET new == sessions'[c]
           frames == {i \in 1..Len(sent') : sent'[i].type = "session:state"}
       IN IF c \notin DOMAIN sessions
          THEN /\ new.stateVersion = 0
               /\ new.stateBlob = NoBlob
               /\ new.stateHash = NoHash
               /\ frames = {}
          ELSE LET old == sessions[c]
                   replaced == new.stateBlob # old.stateBlob \/ new.stateHash # old.stateHash
               IN /\ new.stateVersion \in {old.stateVersion, old.stateVersion + 1}
                  /\ (new.stateVersion = old.stateVersion + 1) <=> replaced
                  /\ replaced => /\ last'.op = "host:state"
                                 /\ new.stateBlob = last'.data
                                 /\ new.stateHash = Sha1(last'.data)
                  /\ \A i \in frames : /\ sent'[i].version = new.stateVersion
                                       /\ sent'[i].version > old.stateVersion
                                       /\ sent'[i].data = new.stateBlob
                                       /\ sent'[i].hash = new.stateHash
                  /\ frames # {} => replaced]_vars

\* C2 happens: the second accepted upload has just been sent out as version 2.
SecondUploadSent ==
  /\ last.op = "host:state"
  /\ last.res = "ok"
  /\ \E i \in 1..Len(sent) : sent[i].type = "session:state" /\ sent[i].version = 2

\* C3. When the host submits a blob whose hash equals the session's cached
\* state hash, stateVersion, the cached blob, the cached hash and lastActivity
\* are unchanged and no frame is emitted.
DuplicateStateIsSilent ==
  [][\A s \in Sockets :
       (/\ last = Idle
        /\ last'.op = "host:state"
        /\ last'.sock = s
        /\ ensureSession(s) # ""
        /\ meta[s].role = "host"
        /\ Sha1(last'.data) = sessions[ensureSession(s)].stateHash)
       => /\ sessions' = sessions
          /\ sent' = <<>>]_vars

\* C3 happens: the host has sent the cached blob again, later on the clock
\* than the session's last activity, and the version is still 1.
DuplicateStateDropped ==
  /\ last.op = "host:state"
  /\ last.res = "duplicate"
  /\ \E c \in DOMAIN sessions :
       /\ c = meta[last.sock].sessionId
       /\ sessions[c].stateVersion = 1
       /\ sessions[c].stateBlob = last.data
       /\ sessions[c].lastActivity < now

\* C4. In every reachable state every session's location interval is a
\* number within [5000, 120000] ms, whatever LOCATION_INTERVAL_MS is configured
\* and whatever host:interval commands were sent.
IntervalWithinBounds ==
  \A c \in DOMAIN sessions :
    /\ sessions[c].locationIntervalMs # NaN
    /\ sessions[c].locationIntervalMs[1] >= MIN_UPDATE_INTERVAL_MS
    /\ sessions[c].locationIntervalMs[1] <= MAX_UPDATE_INTERVAL_MS

\* C5 as stated. For two consecutive accepted fixes l1, l2 of one peer,
\* l2.timestamp minus the time at which l1 was accepted is at least the
\* session's interval (taken where that interval is a number).
FixTimestampsAreSpaced ==
  (/\ last.op = "participant:location"
   /\ last.res = "accepted"
   /\ last.prev # 0
   /\ sessions[meta[last.sock].sessionId].locationIntervalMs # NaN)
  => peers[meta[last.sock].peer].location[1].timestamp - last.prev
       >= sessions[meta[last.sock].sessionId].locationIntervalMs[1]

\* C5 as amended. A peer's stored fix and acceptance time change only when a
\* participant:location of that peer is accepted, and it is accepted only
\* when the server clock at its arrival, minus the server clock at which the
\* peer's previous fix was accepted, is not less than the session's interval
\* at that moment; the acceptance time stored is the server clock, and the
\* fix's timestamp is the sender's when it sent a number and the server clock
\* otherwise.
AcceptedFixesAreSpaced ==
  [][\A r \in DOMAIN peers \cap DOMAIN peers' :
       (\/ peers'[r].location # peers[r].location
        \/ peers'[r].lastLocationAt # peers[r].lastLocationAt)
       => /\ last'.op = "participant:location"
          /\ meta[last'.sock].peer = r
          /\ ~Less(now - peers[r].lastLocationAt,
                   sessions[meta[last'.sock].sessionId].locationIntervalMs)
          /\ peers'[r].lastLocationAt = now
          /\ peers'[r].location # <<>>
          /\ peers'[r].location[1].timestamp =
               IF last'.raw.timestamp # <<>> THEN last'.raw.timestamp[1] ELSE now]_vars

\* C5 happens: a client's second fix is accepted, one interval of 5000 ms
\* after its first, carrying the timestamp 0 the client sent.
SecondFixAccepted ==
  /\ last.op = "participant:location"
  /\ last.res = "accepted"
  /\ last.prev # 0
  /\ now - last.prev = 5000
  /\ sessions[meta[last.sock].sessionId].locationIntervalMs = <<5000>>
  /\ meta[last.sock].role = "client"
  /\ peers[meta[last.sock].peer].location[1].timestamp = 0
  /\ sent # <<>>

\* C6. In every reachable state, across the sessions of the registry, no
\* transport is the bound socket of two different peers.
TransportBoundOnce ==
  LET registryPeers ==
        {sessions[c].host : c \in DOMAIN sessions}
        \cup UNION {{sessions[c].clients[p] : p \in DOMAIN sessions[c].clients} :
                    c \in DOMAIN sessions}
  IN \A a \in registryPeers, b \in registryPeers :
       (a # b /\ peers[a].socket # NoSocket) => peers[a].socket # peers[b].socket

\* C7. No frame of type session:location, session:peer-routes,
\* session:peer-joined, session:peer-left or session:state is sent to a
\* transport that is bound as a client (the socket of a peer in the clients
\* map of a session), and the session:ready such a transport receives
\* carries an empty peers list, as does every session:ready with role client.
ClientsSeeNoPeers ==
  LET clientSockets ==
        UNION {{peers[sessions[c].clients[p]].socket : p \in DOMAIN sessions[c].clients} :
               c \in DOMAIN sessions}
  IN \A i \in 1..Len(sent) :
       /\ sent[i].type \in {"session:location", "session:peer-routes", "session:peer-joined",
                            "session:peer-left", "session:state"}
            => sent[i].to \notin clientSockets
       /\ (sent[i].type = "session:ready" /\ sent[i].role = "client") => sent[i].peers = {}
       /\ (sent[i].type = "session:ready" /\ sent[i].to \in clientSockets)
            => sent[i].peers = {}

\* C8. host:resume with the session's current resume token while the host
\* slot is unbound binds the requesting transport as host, clears
\* hostDetachedAt, keeps the host's participantId, and sends that transport
\* one session:ready whose state is the cached snapshot unchanged (null if
\* none was ever cached) and whose intervalMs is the current interval; every client with an open transport receives one
\* session:host-status {online: true, reason: "host-resumed"}; nothing else
\* is sent.
ResumeRestoresHost ==
  [][\A s \in Sockets :
       (/\ last = Idle
        /\ last'.op = "host:resume"
        /\ last'.sock = s
        /\ last'.code \in DOMAIN sessions
        /\ last'.token # 0
        /\ last'.token = sessions[last'.code].hostResumeToken
        /\ hostSocket(sessions[last'.code]) = NoSocket)
       => LET code == last'.code
              old == sessions[code]
              new == sessions'[code]
              host == old.host
              openClients == {peers[old.clients[p]].socket : p \in DOMAIN old.clients}
                             \cap {x \in Sockets : ready[x] = "open"}
              readies == {i \in 1..Len(sent') : sent'[i].type = "session:ready"}
              statuses == {i \in 1..Len(sent') : sent'[i].type = "session:host-status"}
          IN /\ new.host = host
             /\ peers'[host].socket = s
             /\ peers'[host].participantId = peers[host].participantId
             /\ meta'[s].role = "host"
             /\ meta'[s].sessionId = code
             /\ meta'[s].peer = host
             /\ new.hostDetachedAt = NoTime
             /\ new.stateVersion = old.stateVersion
             /\ new.stateBlob = old.stateBlob
             /\ new.stateHash = old.stateHash
             /\ new.locationIntervalMs = old.locationIntervalMs
             /\ new.clients = old.clients
             /\ readies \cup statuses = 1..Len(sent')
             /\ Cardinality(readies) = 1
             /\ \A i \in readies :
                  /\ sent'[i].to = s
                  /\ sent'[i].role = "host"
                  /\ sent'[i].sessionId = code
                  /\ sent'[i].participantId = peers[host].participantId
                  /\ sent'[i].intervalMs = old.locationIntervalMs
                  /\ sent'[i].state = IF old.stateBlob = NoBlob THEN <<>>
                                      ELSE <<[version |-> old.stateVersion,
                                              data |-> old.stateBlob,
                                              hash |-> old.stateHash]>>
             /\ {sent'[i].to : i \in statuses} = openClients
             /\ Cardinality(statuses) = Cardinality(openClients)
             /\ \A i \in statuses : sent'[i].online /\ sent'[i].reason = "host-resumed"]_vars

\* C8, amended. host:resume with the session's current resume token while the host
\* slot is unbound binds the requesting transport as host, clears
\* hostDetachedAt, keeps the host's participantId, and sends that transport
\* one session:ready when it is OPEN and nothing when the relay is closing it
\* (the state of the frame is the cached snapshot unchanged, null if none was
\* ever cached, and its intervalMs is the current interval); every client with an open transport receives one
\* session:host-status {online: true, reason: "host-resumed"}; nothing else
\* is sent.
ResumeRestoresHostIfOpen ==
  [][\A s \in Sockets :
       (/\ last = Idle
        /\ last'.op = "host:resume"
        /\ last'.sock = s
        /\ last'.code \in DOMAIN sessions
        /\ last'.token # 0
        /\ last'.token = sessions[last'.code].hostResumeToken
        /\ hostSocket(sessions[last'.code]) = NoSocket)
       => LET code == last'.code
              old == sessions[code]
              new == sessions'[code]
              host == old.host
              openClients == {peers[old.clients[p]].socket : p \in DOMAIN old.clients}
                             \cap {x \in Sockets : ready[x] = "open"}
              readies == {i \in 1..Len(sent') : sent'[i].type = "session:ready"}
              statuses == {i \in 1..Len(sent') : sent'[i].type = "session:host-status"}
          IN /\ new.host = host
             /\ peers'[host].socket = s
             /\ peers'[host].participantId = peers[host].participantId
             /\ meta'[s].role = "host"
             /\ meta'[s].sessionId = code
             /\ meta'[s].peer = host
             /\ new.hostDetachedAt = NoTime
             /\ new.stateVersion = old.stateVersion
             /\ new.stateBlob = old.stateBlob
             /\ new.stateHash = old.stateHash
             /\ new.locationIntervalMs = old.locationIntervalMs
             /\ new.clients = old.clients
             /\ readies \cup statuses = 1..Len(sent')
             /\ Cardinality(readies) = IF ready[s] = "open" THEN 1 ELSE 0
             /\ \A i \in readies :
                  /\ sent'[i].to = s
                  /\ sent'[i].role = "host"
                  /\ sent'[i].sessionId = code
                  /\ sent'[i].participantId = peers[host].participantId
                  /\ sent'[i].intervalMs = old.locationIntervalMs
                  /\ sent'[i].state = IF old.stateBlob = NoBlob THEN <<>>
                                      ELSE <<[version |-> old.stateVersion,
                                              data |-> old.stateBlob,
                                              hash |-> old.stateHash]>>
             /\ {sent'[i].to : i \in statuses} = openClients
             /\ Cardinality(statuses) = Cardinality(openClients)
             /\ \A i \in statuses : sent'[i].online /\ sent'[i].reason = "host-resumed"]_vars

\* C8 happens: a host that had published a second snapshot resumes, one
\* client of the session on an open transport.
ResumedWithSnapshot ==
  /\ last.op = "host:resume"
  /\ last.res = "ok"
  /\ \E i \in 1..Len(sent) :
       /\ sent[i].type = "session:ready"
       /\ sent[i].state # <<>>
       /\ sent[i].state[1].version = 2
       /\ sent[i].intervalMs = <<7000>>
  /\ \E i \in 1..Len(sent) : sent[i].type = "session:host-status"

\* C9. A successful host:resume returns, in its session:ready, a resume token
\* that differs from the one presented and was never issued before; the
\* session's stored token and the host peer's token are both the new one; and
\* every later host:resume for that session code that presents a token a
\* resume replaced is answered with the one token-mismatch session:error.
\* The tokens a resume replaced are told from the host peer h, which the
\* meta of its transports keeps referring to: a transport other than the one
\* that created h refers to h only through a successful host:resume, so when
\* the tokens issued so far are one for the creation and one for each such
\* transport, they all went to the session of h, and every token below the
\* token of h is one a resume of that session replaced.
ResumeTokensRotate ==
  [][/\ \A c \in DOMAIN sessions' :
          /\ sessions'[c].hostResumeToken < nextToken'
          /\ (c \in DOMAIN sessions
              /\ sessions'[c].hostResumeToken # sessions[c].hostResumeToken)
             => /\ sessions'[c].hostResumeToken = nextToken
                /\ sessions[c].hostResumeToken < nextToken
     /\ \A s \in Sockets :
          (/\ last = Idle
           /\ last'.op = "host:resume"
           /\ last'.sock = s
           /\ last'.code \in DOMAIN sessions
           /\ last'.token # 0)
          => LET code == last'.code
                 tok == last'.token
                 old == sessions[code]
                 new == sessions'[code]
             IN IF tok = old.hostResumeToken /\ hostSocket(old) = NoSocket
                THEN /\ new.hostResumeToken # tok
                     /\ new.hostResumeToken = nextToken
                     /\ peers'[new.host].resumeToken = new.hostResumeToken
                     /\ \A i \in 1..Len(sent') :
                          sent'[i].type = "session:ready"
                          => /\ sent'[i].to = s
                             /\ sent'[i].resumeToken = new.hostResumeToken
                ELSE tok # old.hostResumeToken
                       => /\ sessions' = sessions
                          /\ peers' = peers
     /\ \A s \in Sockets, h \in DOMAIN peers :
          LET resumedOn == {t \in DOMAIN meta : t # h /\ meta[t].peer = h}
          IN (/\ last = Idle
              /\ last'.op = "host:resume"
              /\ last'.sock = s
              /\ resumedOn # {}
              /\ nextToken - 1 = 1 + Cardinality(resumedOn)
              /\ \E t \in resumedOn : meta[t].sessionId = last'.code
              /\ last'.token >= 1
              /\ last'.token < peers[h].resumeToken)
             => sent' = <<[to |-> s, type |-> "session:error",
                           message |-> "Resume token invalid."]>>]_vars

\* C9, amended. The rotation as in C9; every later host:resume for that
\* session code that presents the token the resume replaced is refused, with
\* the token-mismatch session:error while a session is registered under the
\* code and with the session-not-found error once none is, and the error is
\* written only to a requester whose transport is OPEN.
ResumeTokensRotateRefused ==
  /\ [][/\ \A c \in DOMAIN sessions' :
             /\ sessions'[c].hostResumeToken < nextToken'
             /\ (c \in DOMAIN sessions
                 /\ sessions'[c].hostResumeToken # sessions[c].hostResumeToken)
                => /\ sessions'[c].hostResumeToken = nextToken
                   /\ sessions[c].hostResumeToken < nextToken
        /\ \A s \in Sockets :
             (/\ last = Idle
              /\ last'.op = "host:resume"
              /\ last'.sock = s
              /\ last'.code \in DOMAIN sessions
              /\ last'.token # 0)
             => LET code == last'.code
                    tok == last'.token
                    old == sessions[code]
                    new == sessions'[code]
                IN IF tok = old.hostResumeToken /\ hostSocket(old) = NoSocket
                   THEN /\ new.hostResumeToken # tok
                        /\ new.hostResumeToken = nextToken
                        /\ peers'[new.host].resumeToken = new.hostResumeToken
                        /\ \A i \in 1..Len(sent') :
                             sent'[i].type = "session:ready"
                             => /\ sent'[i].to = s
                                /\ sent'[i].resumeToken = new.hostResumeToken
                   ELSE tok # old.hostResumeToken
                          => /\ sessions' = sessions
                             /\ peers' = peers]_vars
  /\ \A c \in Codes, tok \in 1..MaxTokens :
       []((/\ last.op = "host:resume"
           /\ last.res = "ok"
           /\ last.code = c
           /\ last.token = tok)
          => [](last = Idle
                => []((last.op = "host:resume" /\ last.code = c /\ last.token = tok)
                      => /\ last.res = IF c \in DOMAIN sessions THEN "token-mismatch"
                                       ELSE "not-found"
                         /\ sent = IF ready[last.sock] # "open" THEN <<>>
                                   ELSE <<[to |-> last.sock, type |-> "session:error",
                                           message |-> IF c \in DOMAIN sessions
                                                       THEN "Resume token invalid."
                                                       ELSE "Session not found or expired."]>>)))

\* C9 happens: a session that was resumed, its host on another transport than
\* the one that created it, is sent the token the resume replaced and answers
\* with the token-mismatch error.
OldTokenRejected ==
  /\ last.op = "host:resume"
  /\ last.res = "token-mismatch"
  /\ last.token >= 1
  /\ sent # <<>>
  /\ \E c \in DOMAIN sessions :
       /\ c = last.code
       /\ last.token < sessions[c].hostResumeToken
       /\ hostSocket(sessions[c]) \notin {NoSocket, sessions[c].host}

\* C10. A host:resume whose code names no session of the registry, or whose
\* token differs from the session's token, or whose session has a bound host
\* transport, sends the requester exactly one session:error and nothing to
\* anyone else, and leaves every session, every peer, every binding and the
\* token generator as they were.
FailedResumeChangesNothing ==
  [][\A s \in Sockets :
       (/\ last = Idle
        /\ last'.op = "host:resume"
        /\ last'.sock = s
        /\ \/ last'.code \notin DOMAIN sessions
           \/ last'.token # sessions[last'.code].hostResumeToken
           \/ hostSocket(sessions[last'.code]) # NoSocket)
       => /\ sessions' = sessions
          /\ peers' = peers
          /\ meta' = meta
          /\ order' = order
          /\ ready' = ready
          /\ nextToken' = nextToken
          /\ Len(sent') = 1
          /\ \A i \in 1..Len(sent') :
               sent'[i].to = s /\ sent'[i].type = "session:error"]_vars

\* C10, amended. A host:resume whose code names no session of the registry,
\* or whose token differs from the session's token, or whose session has a
\* bound host transport, sends the requester exactly one session:error when
\* its transport is OPEN and none when the relay is closing it, nothing to
\* anyone else, and leaves every session, every peer, every binding and the
\* token generator as they were.
FailedResumeChangesNothingIfOpen ==
  [][\A s \in Sockets :
       (/\ last = Idle
        /\ last'.op = "host:resume"
        /\ last'.sock = s
        /\ \/ last'.code \notin DOMAIN sessions
           \/ last'.token # sessions[last'.code].hostResumeToken
           \/ hostSocket(sessions[last'.code]) # NoSocket)
       => /\ sessions' = sessions
          /\ peers' = peers
          /\ meta' = meta
          /\ order' = order
          /\ ready' = ready
          /\ nextToken' = nextToken
          /\ Len(sent') = IF ready[s] = "open" THEN 1 ELSE 0
          /\ \A i \in 1..Len(sent') :
               sent'[i].to = s /\ sent'[i].type = "session:error"]_vars

\* C10 happens: a second transport presents the right token while the host
\* is connected and a client is in the session, and gets the error.
ResumeRefusedHostConnected ==
  /\ last.op = "host:resume"
  /\ last.res = "host-connected"
  /\ Len(sent) = 1
  /\ sent[1].to = last.sock
  /\ last.sock \notin DOMAIN meta
  /\ \E c \in DOMAIN sessions : c = last.code /\ DOMAIN sessions[c].clients # {}

\* C11. When the host's transport closes, the session stays in the registry
\* with its clients, cached state, interval and resume token intact, the host
\* slot's transport is cleared, hostDetachedAt and lastActivity are set to the
\* close time, and every client with an open transport receives exactly one
\* session:host-status with online false and reason "host-disconnected".
HostCloseDetaches ==
  [][\A s \in Sockets, c \in DOMAIN sessions :
       (/\ last = Idle
        /\ last'.op = "close"
        /\ last'.sock = s
        /\ hostSocket(sessions[c]) = s)
       => /\ c \in DOMAIN sessions'
          /\ LET old == sessions[c]
                 new == sessions'[c]
                 statuses == {i \in 1..Len(sent') : sent'[i].type = "session:host-status"}
                 openRefs == {r \in {old.clients[p] : p \in DOMAIN old.clients} :
                                ready'[peers[r].socket] = "open"}
             IN /\ new.host = old.host
                /\ new.clients = old.clients
                /\ new.stateVersion = old.stateVersion
                /\ new.stateBlob = old.stateBlob
                /\ new.stateHash = old.stateHash
                /\ new.locationIntervalMs = old.locationIntervalMs
                /\ new.hostResumeToken = old.hostResumeToken
                /\ peers'[new.host].socket = NoSocket
                /\ new.hostDetachedAt = now
                /\ new.lastActivity = now
                /\ \A x \in Sockets :
                     Cardinality({i \in statuses : sent'[i].to = x})
                       = Cardinality({r \in openRefs : peers[r].socket = x})
                /\ \A i \in statuses :
                     ~sent'[i].online /\ sent'[i].reason = "host-disconnected"]_vars

\* C12. While a session's host is detached and now - hostDetachedAt is at
\* most HOST_RESUME_GRACE_MS (SESSION_TTL_MS being at least that), an expiry
\* sweep leaves the session in the registry untouched, and a host:resume with
\* the current token succeeds, binding the requester as host and sending it
\* the session:ready, whatever sweeps, joins, leaves and messages came in
\* between.
ResumableWithinGrace ==
  [][\A c \in DOMAIN sessions :
       (/\ last = Idle
        /\ hostSocket(sessions[c]) = NoSocket
        /\ sessions[c].hostDetachedAt # NoTime
        /\ now - sessions[c].hostDetachedAt <= HOST_RESUME_GRACE_MS
        /\ SESSION_TTL_MS >= HOST_RESUME_GRACE_MS)
       => /\ last'.op = "prune" =>
               /\ c \in DOMAIN sessions'
               /\ sessions'[c] = sessions[c]
               /\ \A i \in 1..Len(last'.ended) : last'.ended[i].code # c
          /\ (/\ last'.op = "host:resume"
              /\ last'.code = c
              /\ last'.token = sessions[c].hostResumeToken)
             => /\ c \in DOMAIN sessions'
                /\ peers'[sessions'[c].host].socket = last'.sock
                /\ sessions'[c].hostDetachedAt = NoTime
                /\ meta'[last'.sock].role = "host"
                /\ meta'[last'.sock].sessionId = c
                /\ \E i \in 1..Len(sent') :
                     /\ sent'[i].type = "session:ready"
                     /\ sent'[i].to = last'.sock
                     /\ sent'[i].sessionId = c]_vars

\* C12, amended. While a session's host is detached and now - hostDetachedAt is at
\* most HOST_RESUME_GRACE_MS (SESSION_TTL_MS being at least that), an expiry
\* sweep leaves the session in the registry untouched, and a host:resume with
\* the current token binds the requester as host, and sends it the
\* session:ready when its transport is OPEN, whatever sweeps, joins, leaves
\* and messages came in between.
ResumableWithinGraceIfOpen ==
  [][\A c \in DOMAIN sessions :
       (/\ last = Idle
        /\ hostSocket(sessions[c]) = NoSocket
        /\ sessions[c].hostDetachedAt # NoTime
        /\ now - sessions[c].hostDetachedAt <= HOST_RESUME_GRACE_MS
        /\ SESSION_TTL_MS >= HOST_RESUME_GRACE_MS)
       => /\ last'.op = "prune" =>
               /\ c \in DOMAIN sessions'
               /\ sessions'[c] = sessions[c]
               /\ \A i \in 1..Len(last'.ended) : last'.ended[i].code # c
          /\ (/\ last'.op = "host:resume"
              /\ last'.code = c
              /\ last'.token = sessions[c].hostResumeToken)
             => /\ c \in DOMAIN sessions'
                /\ peers'[sessions'[c].host].socket = last'.sock
                /\ sessions'[c].hostDetachedAt = NoTime
                /\ meta'[last'.sock].role = "host"
                /\ meta'[last'.sock].sessionId = c
                /\ ready[last'.sock] = "open" =>
                     \E i \in 1..Len(sent') :
                       /\ sent'[i].type = "session:ready"
                       /\ sent'[i].to = last'.sock
                       /\ sent'[i].sessionId = c]_vars

\* C12 happens: the host resumes exactly one grace after it was detached, a
\* client in the session.
ResumedAtEndOfGrace ==
  /\ last.op = "host:resume"
  /\ last.res = "ok"
  /\ now - last.detachedAt = HOST_RESUME_GRACE_MS
  /\ DOMAIN sessions[last.code].clients # {}
  /\ sent # <<>>

\* C13. Each expiry sweep terminates a session with reason host-timeout
\* exactly when its host is detached and now - hostDetachedAt exceeds
\* HOST_RESUME_GRACE_MS; otherwise with reason session-expired exactly when
\* lastActivity < now - SESSION_TTL_MS; otherwise it leaves the session
\* untouched.  And, the clock advancing and the sweep firing again and again,
\* a session of the registry is eventually removed unless it sees activity:
\* whatever session a code names, later the code names none or its session
\* has been active at that very moment.
SweepDecidesAndRemoves ==
  /\ [][\A c \in DOMAIN sessions :
          (last = Idle /\ last'.op = "prune")
          => LET timeout == /\ hostSocket(sessions[c]) = NoSocket
                            /\ now - sessions[c].hostDetachedAt > HOST_RESUME_GRACE_MS
                 expiry == /\ ~timeout
                           /\ sessions[c].lastActivity < now - SESSION_TTL_MS
                 calls == {i \in 1..Len(last'.ended) : last'.ended[i].code = c}
             IN /\ Cardinality(calls) = IF timeout \/ expiry THEN 1 ELSE 0
                /\ \A i \in calls :
                     last'.ended[i].reason = IF timeout THEN "host-timeout"
                                             ELSE "session-expired"
                /\ (timeout \/ expiry) => c \notin DOMAIN sessions'
                /\ ~(timeout \/ expiry) => /\ c \in DOMAIN sessions'
                                           /\ sessions'[c] = sessions[c]]_vars
  /\ \A c \in Codes :
       (c \in DOMAIN sessions)
       ~> (c \notin DOMAIN sessions \/ sessions[c].lastActivity = now)

\* C13 happens: a sweep has met a session whose host was detached for
\* exactly one whole grace, and has spared it.
SweptAtTheLimit ==
  /\ last.op = "prune"
  /\ last.ended = <<>>
  /\ \E c \in DOMAIN sessions :
       /\ hostSocket(sessions[c]) = NoSocket
       /\ now - sessions[c].hostDetachedAt = HOST_RESUME_GRACE_MS

\* C14. A successful client:join (existing session, unbound transport, code
\* matched after trimming and upper-casing) adds exactly one new client peer
\* to that session, binds the transport to it as role client, sends the
\* joiner one session:ready with role client, empty peers, state null and the
\* session's current intervalMs, and sends one session:peer-joined carrying
\* the new peer to the host only; it does so also while the host is detached
\* (nobody then receiving a session:peer-joined).
JoinAddsOneClient ==
  [][\A s \in Sockets, c \in DOMAIN sessions :
       (/\ last = Idle
        /\ last'.op = "client:join"
        /\ last'.sock = s
        /\ s \notin DOMAIN meta
        /\ last'.raw = c \/ (last'.raw = " ab " /\ c = "AB"))
       => LET old == sessions[c]
              new == sessions'[c]
              id == last'.clientId
              readies == {i \in 1..Len(sent') : sent'[i].type = "session:ready"}
              joined == {i \in 1..Len(sent') : sent'[i].type = "session:peer-joined"}
          IN /\ c \in DOMAIN sessions'
             /\ \A d \in DOMAIN sessions \ {c} : d \in DOMAIN sessions' /\ sessions'[d] = sessions[d]
             /\ id \notin DOMAIN old.clients
             /\ DOMAIN new.clients = DOMAIN old.clients \cup {id}
             /\ Cardinality(DOMAIN new.clients) = Cardinality(DOMAIN old.clients) + 1
             /\ \A p \in DOMAIN old.clients : new.clients[p] = old.clients[p]
             /\ new.clients[id] \notin {old.clients[p] : p \in DOMAIN old.clients}
             /\ peers'[new.clients[id]].socket = s
             /\ peers'[new.clients[id]].participantId = id
             /\ new.host = old.host
             /\ meta'[s].role = "client"
             /\ meta'[s].sessionId = c
             /\ meta'[s].participantId = id
             /\ meta'[s].peer = new.clients[id]
             /\ readies \cup joined = 1..Len(sent')
             /\ Cardinality(readies) = 1
             /\ \A i \in readies :
                  /\ sent'[i].to = s
                  /\ sent'[i].role = "client"
                  /\ sent'[i].sessionId = c
                  /\ sent'[i].participantId = id
                  /\ sent'[i].peers = {}
                  /\ sent'[i].state = <<>>
                  /\ sent'[i].intervalMs = old.locationIntervalMs
             /\ Cardinality(joined) = IF hostSocket(old) # NoSocket THEN 1 ELSE 0
             /\ \A i \in joined :
                  /\ sent'[i].to = hostSocket(old)
                  /\ sent'[i].participant.id = id
                  /\ sent'[i].participant.role = "client"]_vars

\* C15. A client that joins a session whose host has published a state
\* receives that latest cached snapshot in its session:ready.
JoinerGetsSnapshot ==
  \A c \in DOMAIN sessions :
    (/\ last.op = "client:join"
     /\ last.res = "ok"
     /\ last.sock \in DOMAIN meta
     /\ meta[last.sock].sessionId = c
     /\ statePacket(sessions[c]) # <<>>)
    => \A i \in 1..Len(sent) :
         sent[i].type = "session:ready" => sent[i].state = statePacket(sessions[c])

\* C16. A client:routes whose sanitized form equals the sanitized form of the
\* client's previous accepted upload (both may be the empty list) changes no
\* peer and no session and sends nothing.
RepeatedRoutesAreSilent ==
  [][\A s \in Sockets :
       (/\ last = Idle
        /\ last'.op = "client:routes"
        /\ last'.sock = s
        /\ s \in DOMAIN meta
        /\ meta[s].role = "client"
        /\ meta[s].sessionId \in DOMAIN sessions
        /\ peers[meta[s].peer].lastRoutesAt # 0
        /\ sanitizeClientRoutes(last'.raw)
             = IF peers[meta[s].peer].routes = <<>> THEN <<>>
               ELSE peers[meta[s].peer].routes[1])
       => /\ peers' = peers
          /\ sessions' = sessions
          /\ sent' = <<>>]_vars

\* C17. Every client peer's routes is null or a non-empty list of at most
\* MAX_ROUTES_PER_CLIENT routes of one to MAX_ROUTE_POINTS items each, and its
\* routesHash is null exactly when routes is null and is otherwise the hash
\* of the routes stored.
StoredRoutesWithinBounds ==
  \A ref \in DOMAIN peers :
    peers[ref].participantId \in ClientIds
    => \/ /\ peers[ref].routes = <<>>
          /\ peers[ref].routesHash = NoHash
       \/ /\ peers[ref].routes # <<>>
          /\ Len(peers[ref].routes[1]) \in 1..MAX_ROUTES_PER_CLIENT
          /\ \A i \in 1..Len(peers[ref].routes[1]) :
               Len(peers[ref].routes[1][i].items) \in 1..MAX_ROUTE_POINTS
          /\ peers[ref].routesHash # NoHash
          /\ peers[ref].routesHash = hashRoutes(peers[ref].routes[1])

\* C17 happens: a route sent with one item too many is stored cut to
\* MAX_ROUTE_POINTS items.
LongRouteStoredCut ==
  /\ last.op = "client:routes"
  /\ last.res = "ok"
  /\ last.raw.isList
  /\ \E i \in 1..Len(last.raw.routes) : Len(last.raw.routes[i].items) > MAX_ROUTE_POINTS
  /\ \E ref \in DOMAIN peers :
       /\ peers[ref].socket = last.sock
       /\ peers[ref].routes # <<>>
       /\ Len(peers[ref].routes[1][1].items) = MAX_ROUTE_POINTS

\* C18. A client:routes arriving less than ROUTE_UPDATE_INTERVAL_MS after the
\* same client's previous accepted upload is not accepted: it is neither
\* stored nor forwarded.
RouteUploadsAreSpaced ==
  (/\ last.op = "client:routes"
   /\ last.res = "ok"
   /\ last.prev # 0)
  => now - last.prev >= ROUTE_UPDATE_INTERVAL_MS

\* C19. A host:interval from the host whose clamped value differs from the
\* session's interval stores the new value, and the host and every client
\* with an open transport each get exactly one session:interval carrying the
\* value now stored; when the clamped value is the current one, nothing
\* changes and nothing is sent.
IntervalChangeIsBroadcast ==
  [][\A s \in Sockets, c \in DOMAIN sessions :
       LET ms == last'.intervalMs
           requested == IF ms = NaN /\ last'.seconds # NaN
                        THEN last'.seconds[1] * 1000 ELSE ms[1]
           clamped == IF requested < MIN_UPDATE_INTERVAL_MS THEN MIN_UPDATE_INTERVAL_MS
                      ELSE IF requested > MAX_UPDATE_INTERVAL_MS THEN MAX_UPDATE_INTERVAL_MS
                      ELSE requested
           old == sessions[c]
           due(t) == (IF hostSocket(old) = t THEN 1 ELSE 0)
                     + (IF ready[t] # "open" THEN 0
                        ELSE Cardinality({p \in DOMAIN old.clients :
                                            peers[old.clients[p]].socket = t}))
       IN (/\ last = Idle
           /\ last'.op = "host:interval"
           /\ last'.sock = s
           /\ s \in DOMAIN meta
           /\ meta[s].role = "host"
           /\ meta[s].sessionId = c
           /\ ms # NaN \/ last'.seconds # NaN
           /\ requested > 0)
          => IF <<clamped>> = old.locationIntervalMs
             THEN /\ sessions' = sessions
                  /\ peers' = peers
                  /\ meta' = meta
                  /\ sent' = <<>>
             ELSE /\ sessions' = [sessions EXCEPT ![c].locationIntervalMs = <<clamped>>]
                  /\ peers' = peers
                  /\ \A i \in 1..Len(sent') :
                       /\ sent'[i].type = "session:interval"
                       /\ sent'[i].intervalMs = sessions'[c].locationIntervalMs
                  /\ \A t \in Sockets :
                       Cardinality({i \in 1..Len(sent') : sent'[i].to = t}) = due(t)]_vars

\* C19 happens: a request above the maximum changes the interval while one
\* client's transport is open and another's is no longer open; the host and
\* the first client are each told the clamped value once, the other nothing.
IntervalToldToOpenTransports ==
  /\ last.op = "host:interval"
  /\ last.res = "ok"
  /\ last.intervalMs = <<125000>>
  /\ Len(sent) = 2
  /\ sent[1].to # sent[2].to
  /\ \A i \in 1..2 : sent[i].intervalMs = <<MAX_UPDATE_INTERVAL_MS>>
  /\ \E p \in DOMAIN sessions["AB"].clients :
       /\ peers[sessions["AB"].clients[p]].socket # NoSocket
       /\ ready[peers[sessions["AB"].clients[p]].socket] # "open"

\* C20. host:interval from the host: intervalMs 4000 sets the interval to
\* 5000, 125000 sets 120000, seconds 7 without intervalMs sets 7000; a request
\* that is no finite number or not positive gets the host one session:error,
\* no session:interval, and leaves the interval as it was.
IntervalCoercion ==
  [][\A s \in Sockets, c \in DOMAIN sessions :
       (/\ last = Idle
        /\ last'.op = "host:interval"
        /\ last'.sock = s
        /\ s \in DOMAIN meta
        /\ meta[s].role = "host"
        /\ meta[s].sessionId = c)
       => /\ last'.intervalMs = <<4000>> => sessions'[c].locationIntervalMs = <<5000>>
          /\ last'.intervalMs = <<125000>> => sessions'[c].locationIntervalMs = <<120000>>
          /\ (last'.intervalMs = NaN /\ last'.seconds = <<7>>)
               => sessions'[c].locationIntervalMs = <<7000>>
          /\ (\/ last'.intervalMs = NaN /\ last'.seconds = NaN
              \/ last'.intervalMs = <<0>>)
               => /\ sessions' = sessions
                  /\ Len(sent') = 1
                  /\ sent'[1].type = "session:error"
                  /\ sent'[1].to = s]_vars

\* C20 happens: the host asked for 4000 ms and the session holds 5000 ms.
RequestBelowMinimumRaised ==
  /\ last.op = "host:interval"
  /\ last.res = "ok"
  /\ last.intervalMs = <<4000>>
  /\ sessions["AB"].locationIntervalMs = <<5000>>

\* C21. A participant:message whose trimmed text is not empty and does not
\* start with /data sends exactly one session:message, carrying the sender's
\* participantId and role, to the host and to every client of the sender's
\* session, the sender included, and to no other transport; a text that
\* starts with /data sends exactly one session:message with participantId
\* "server" and role "system" to the requester and nothing to anyone else.
MessageReachesOwnSession ==
  [][\A s \in Sockets, c \in DOMAIN sessions :
       LET session == sessions[c]
           due(t) == IF ready[t] # "open" THEN 0
                     ELSE (IF hostSocket(session) = t THEN 1 ELSE 0)
                          + Cardinality({p \in DOMAIN session.clients :
                                           peers[session.clients[p]].socket = t})
           frames(t) == {i \in 1..Len(sent') : sent'[i].to = t}
       IN (/\ last = Idle
           /\ last'.op = "participant:message"
           /\ last'.sock = s
           /\ s \in DOMAIN meta
           /\ meta[s].sessionId = c)
          => /\ last'.raw \in {"hello", " hello "}
                  => /\ \A t \in Sockets : Cardinality(frames(t)) = due(t)
                     /\ ready[s] = "open" => frames(s) # {}
                     /\ \A i \in 1..Len(sent') :
                          /\ sent'[i].type = "session:message"
                          /\ sent'[i].participantId = meta[s].participantId
                          /\ sent'[i].role = meta[s].role
                          /\ sent'[i].text = "hello"
             /\ last'.raw \in {"/data", "/data 60", "/database"}
                  => /\ \A t \in Sockets :
                          Cardinality(frames(t)) = IF t = s /\ ready[s] = "open" THEN 1 ELSE 0
                     /\ \A i \in 1..Len(sent') :
                          /\ sent'[i].type = "session:message"
                          /\ sent'[i].participantId = "server"
                          /\ sent'[i].role = "system"]_vars

\* C22. Every inbound frame of an unknown type gets the sender exactly one
\* session:error "Unknown message type: <type>" and has no other effect.
UnknownTypeAnswered ==
  [][\A s \in Sockets :
       (last = Idle /\ last'.op = "unknown" /\ last'.sock = s)
       => /\ Len(sent') = 1
          /\ sent'[1].to = s
          /\ sent'[1].type = "session:error"
          /\ sent'[1].message = "Unknown message type: " \o last'.type
          /\ UNCHANGED <<meta, peers, sessions, order, nextToken, ready>>]_vars

\* C22, amended. A frame of an unknown type from a transport that is OPEN gets
\* the sender exactly one session:error "Unknown message type: <type>"; from a
\* transport the server is closing it gets nothing; either way no session,
\* peer or binding changes and no other transport is written to.
UnknownTypeAnsweredIfOpen ==
  [][\A s \in Sockets :
       (last = Idle /\ last'.op = "unknown" /\ last'.sock = s)
       => /\ \A i \in 1..Len(sent') :
               /\ sent'[i].to = s
               /\ sent'[i].type = "session:error"
               /\ sent'[i].message = "Unknown message type: " \o last'.type
          /\ Len(sent') = IF ready[s] = "open" THEN 1 ELSE 0
          /\ UNCHANGED <<meta, peers, sessions, order, nextToken, ready>>]_vars

\* C22 happens: a client bound to a live session sends a frame of an unknown
\* type and is answered alone, the host being connected.
UnknownTypeFromClient ==
  /\ last.op = "unknown"
  /\ last.type = "bogus"
  /\ last.sock \in DOMAIN meta
  /\ meta[last.sock].role = "client"
  /\ meta[last.sock].sessionId \in DOMAIN sessions
  /\ hostSocket(sessions[meta[last.sock].sessionId]) # NoSocket
  /\ Len(sent) = 1
  /\ sent[1].to = last.sock

\* C23. Terminating a session removes it from the registry, sends exactly one
\* session:ended with the reason to the host (if bound) and to every client
\* with an open transport, and only then closes each client transport with
\* code 1012 and the host transport with code 1001; afterwards a command from
\* one of those transports that needs a session changes no state and writes
\* to nobody but, as not joined, to its sender.
TerminationIsFinal ==
  /\ [][\A c \in DOMAIN sessions :
          LET old == sessions[c]
              due(t) == IF ready[t] # "open" THEN 0
                        ELSE (IF hostSocket(old) = t THEN 1 ELSE 0)
                             + Cardinality({p \in DOMAIN old.clients :
                                              peers[old.clients[p]].socket = t})
          IN (/\ last = Idle
              /\ last'.op \in {"host:shutdown", "prune"}
              /\ "ended" \in DOMAIN last'
              /\ Len(last'.ended) = 1
              /\ last'.ended[1].code = c)
             => LET closes == last'.ended[1].closes
                IN /\ c \notin DOMAIN sessions'
                   /\ \A i \in 1..Len(sent') :
                        /\ sent'[i].type = "session:ended"
                        /\ sent'[i].reason = last'.ended[1].reason
                   /\ \A t \in Sockets :
                        Cardinality({i \in 1..Len(sent') : sent'[i].to = t}) = due(t)
                   /\ \A p \in DOMAIN old.clients :
                        /\ ready'[peers[old.clients[p]].socket] # "open"
                        /\ \E k \in 1..Len(closes) :
                             /\ closes[k] = [sock |-> peers[old.clients[p]].socket,
                                             code |-> 1012]
                             /\ \A j \in 1..(k - 1) : closes[j].sock # closes[k].sock
                   /\ hostSocket(old) # NoSocket
                        => /\ ready'[hostSocket(old)] # "open"
                           /\ \E k \in 1..Len(closes) :
                                /\ closes[k] = [sock |-> hostSocket(old), code |-> 1001]
                                /\ \A j \in 1..(k - 1) : closes[j].sock # closes[k].sock]_vars
  /\ [][\A s \in Sockets :
          (/\ last = Idle
           /\ ready[s] = "closing"
           /\ last'.sock = s
           /\ last'.op \in {"participant:location", "participant:message",
                            "participant:heartbeat", "host:state", "host:interval",
                            "host:shutdown", "client:routes"})
          => /\ UNCHANGED <<meta, peers, sessions, order, nextToken, ready>>
             /\ \A i \in 1..Len(sent') :
                  /\ sent'[i].to = s
                  /\ sent'[i].type = "session:error"
                  /\ sent'[i].message = "Not joined to a session."]_vars

\* C24. A host:shutdown from a transport that is bound to no session is
\* answered with the not-joined session:error, like every other command that
\* needs a session.
UnboundShutdownAnswered ==
  (/\ last.op = "host:shutdown"
   /\ last.sock \notin DOMAIN meta
   /\ ready[last.sock] = "open")
  => /\ Len(sent) = 1
     /\ sent[1].to = last.sock
     /\ sent[1].type = "session:error"
     /\ sent[1].message = "Not joined to a session."

\* C25. host:state, host:interval and host:shutdown from a transport bound as
\* a client, and client:routes from a transport bound as host, each get the
\* sender exactly one session:error, leave the session and its peers as they
\* were and write to no other transport; and only the session's host
\* publishes state, changes the cadence or terminates the session.
RoleAuthority ==
  /\ [][\A s \in Sockets :
          (/\ last = Idle
           /\ last'.sock = s
           /\ s \in DOMAIN meta
           /\ meta[s].sessionId \in DOMAIN sessions
           /\ \/ /\ last'.op \in {"host:state", "host:interval", "host:shutdown"}
                 /\ meta[s].role = "client"
              \/ /\ last'.op = "client:routes"
                 /\ meta[s].role = "host")
          => /\ UNCHANGED <<meta, peers, sessions, order, nextToken, ready>>
             /\ Len(sent') = 1
             /\ sent'[1].to = s
             /\ sent'[1].type = "session:error"]_vars
  /\ [][\A s \in Sockets, c \in DOMAIN sessions :
          (/\ last = Idle
           /\ last'.sock = s
           /\ last'.op \in {"host:state", "host:interval", "host:shutdown"}
           /\ \/ c \notin DOMAIN sessions'
              \/ sessions'[c].stateVersion # sessions[c].stateVersion
              \/ sessions'[c].stateBlob # sessions[c].stateBlob
              \/ sessions'[c].locationIntervalMs # sessions[c].locationIntervalMs)
          => hostSocket(sessions[c]) = s]_vars

\* C26. The registry never holds two sessions of one code: a host:init
\* registers a code that is not in the registry and leaves every live session
\* as it was, and a host:init on a bound transport creates no session and
\* returns one session:error.
CodesAreUnique ==
  /\ [](/\ \A i, j \in 1..Len(order) : order[i] = order[j] => i = j
        /\ {order[i] : i \in 1..Len(order)} = DOMAIN sessions)
  /\ [][\A s \in Sockets :
          (last = Idle /\ last'.op = "host:init" /\ last'.sock = s)
          => IF s \in DOMAIN meta
             THEN /\ UNCHANGED <<meta, peers, sessions, order, nextToken, ready>>
                  /\ Len(sent') = 1
                  /\ sent'[1].to = s
                  /\ sent'[1].type = "session:error"
             ELSE /\ \E c \in Codes :
                       /\ c \notin DOMAIN sessions
                       /\ DOMAIN sessions' = DOMAIN sessions \cup {c}
                       /\ order' = Append(order, c)
                       /\ peers'[sessions'[c].host].socket = s
                  /\ \A d \in DOMAIN sessions : sessions'[d] = sessions[d]]_vars

\* C27. Participant ids are unique within a session: a client:join never
\* assigns an id that a client of the session already holds, so it never
\* replaces an entry of the clients map, and the host's id is no client's id.
ParticipantIdsAreUnique ==
  /\ [][\A s \in Sockets, c \in DOMAIN sessions :
          (/\ last = Idle
           /\ last'.op = "client:join"
           /\ last'.sock = s
           /\ c \in DOMAIN sessions'
           /\ sessions'[c].clients # sessions[c].clients)
          => last'.clientId \notin DOMAIN sessions[c].clients]_vars
  /\ [](\A c \in DOMAIN sessions :
          peers[sessions[c].host].participantId \notin DOMAIN sessions[c].clients)

\* C30. When the transport of a bound client closes, that client's peer is
\* removed from the clients map of its session, the host, if bound and open,
\* gets exactly one session:peer-left with the client's participantId, no
\* client gets a frame, and the other peers, the host, the cached state and
\* the interval of the session are as before.
ClientCloseRemovesItsPeer ==
  [][\A s \in Sockets, c \in DOMAIN sessions :
       LET old == sessions[c]
           hostOpen == hostSocket(old) # NoSocket /\ ready[hostSocket(old)] = "open"
       IN (/\ last = Idle
           /\ last'.op = "close"
           /\ last'.sock = s
           /\ s \in DOMAIN meta
           /\ meta[s].role = "client"
           /\ meta[s].sessionId = c)
          => /\ c \in DOMAIN sessions'
             /\ {sessions'[c].clients[p] : p \in DOMAIN sessions'[c].clients}
                  = {old.clients[p] : p \in DOMAIN old.clients} \ {meta[s].peer}
             /\ \A p \in DOMAIN sessions'[c].clients :
                  /\ p \in DOMAIN old.clients
                  /\ sessions'[c].clients[p] = old.clients[p]
                  /\ peers'[old.clients[p]] = peers[old.clients[p]]
             /\ sessions' = [sessions EXCEPT ![c].clients = sessions'[c].clients,
                                             ![c].clientKeys = sessions'[c].clientKeys]
             /\ sessions'[c].clientKeys
                  = SelectSeq(old.clientKeys, LAMBDA p : p \in DOMAIN sessions'[c].clients)
             /\ peers'[old.host] = peers[old.host]
             /\ Len(sent') = IF hostOpen THEN 1 ELSE 0
             /\ \A i \in 1..Len(sent') :
                  /\ sent'[i].to = hostSocket(old)
                  /\ sent'[i].type = "session:peer-left"
                  /\ sent'[i].participantId = meta[s].participantId]_vars

\* C28. After every recordTraffic call the meter holds at most
\* MAX_TRAFFIC_WINDOW_SECONDS buckets, none of them older than now minus
\* MAX_TRAFFIC_WINDOW_SECONDS, and the totals never decrease and are what
\* they would be without eviction.
MeterWithinWindow ==
  /\ [](last.op = "record"
        => /\ Cardinality(DOMAIN trafficStats.buckets) <= MAX_TRAFFIC_WINDOW_SECONDS
           /\ \A key \in DOMAIN trafficStats.buckets :
                key >= now \div 1000 - MAX_TRAFFIC_WINDOW_SECONDS)
  /\ [][/\ trafficStats'.bytesIn >= trafficStats.bytesIn
        /\ trafficStats'.bytesOut >= trafficStats.bytesOut
        /\ last'.op = "record"
             => trafficStats'.bytesIn + trafficStats'.bytesOut
                  = trafficStats.bytesIn + trafficStats.bytesOut + last'.bytes[1]]_vars

\* C29. summarizeTraffic with no window, or one that is no number or not
\* positive, returns the totals alone; with a window w > 0 it returns the
\* totals and the bytes of exactly the buckets whose second is at least now
\* minus the smaller of w and MAX_TRAFFIC_WINDOW_SECONDS, reports that
\* smaller value as the window, and the windowed sum is at most the total.
\* (Windows are in tenths of a second.)
SummaryOverWindow ==
  last.op = "summarize"
  => LET w == windowArg(last.text)
         total == trafficStats.bytesIn + trafficStats.bytesOut
         nowSeconds == now \div 1000
     IN /\ last.summary.totalBytes = total
        /\ (w = NaN \/ w[1] <= 0)
             => /\ last.summary.windowBytes = <<>>
                /\ last.summary.window = <<>>
        /\ (w # NaN /\ w[1] > 0)
             => /\ last.summary.window # <<>>
                /\ last.summary.window[1] * 10 = Min(w[1], MAX_TRAFFIC_WINDOW_SECONDS * 10)
                /\ last.summary.windowBytes
                     = <<bucketBytes(trafficStats.buckets, nowSeconds - (Min(w[1], MAX_TRAFFIC_WINDOW_SECONDS * 10) \div 10), nowSeconds)>>
                /\ last.summary.windowBytes[1] <= total

\* C29, amended. As C29, the window being w rounded to whole seconds before
\* it is capped: the buckets summed are those whose second is at least now
\* minus min(MAX_TRAFFIC_WINDOW_SECONDS, round(w)), and that value is the
\* window reported.
SummaryOverRoundedWindow ==
  last.op = "summarize"
  => LET w == windowArg(last.text)
         total == trafficStats.bytesIn + trafficStats.bytesOut
         nowSeconds == now \div 1000
     IN /\ last.summary.totalBytes = total
        /\ (w = NaN \/ w[1] <= 0)
             => /\ last.summary.windowBytes = <<>>
                /\ last.summary.window = <<>>
        /\ (w # NaN /\ w[1] > 0)
             => /\ last.summary.window = <<Min(MAX_TRAFFIC_WINDOW_SECONDS, (w[1] + 5) \div 10)>>
                /\ last.summary.windowBytes
                     = <<bucketBytes(trafficStats.buckets, nowSeconds - Min(MAX_TRAFFIC_WINDOW_SECONDS, (w[1] + 5) \div 10), nowSeconds)>>
                /\ last.summary.windowBytes[1] <= total

\* C29 happens: a window of 5000 s is asked for after traffic older and
\* younger than the maximum, and the summary is over the capped window.
SummaryOverCappedWindow ==
  /\ last.op = "summarize"
  /\ last.text = "/data 5000"
  /\ last.summary.window = <<MAX_TRAFFIC_WINDOW_SECONDS>>
  /\ last.summary.windowBytes # <<>>
  /\ last.summary.windowBytes[1] > 0
  /\ last.summary.windowBytes[1] < last.summary.totalBytes

\* C31. At each probe a transport whose alive flag is false is terminated
\* and not pinged, and every other connected transport has its flag cleared
\* and is pinged; only an inbound pong sets a flag again, so a transport that
\* sends no pong between two probes is terminated at the second; and once
\* the close of a bound transport is processed its participant is dropped:
\* the host is detached or the client removed, and no peer of the registry
\* is bound to that transport any more.
ProbeTerminatesSilent ==
  [][ /\ (last'.op = "probe")
          => \A s \in Sockets :
               /\ (Connected(s) /\ ~isAlive[s])
                    => /\ s \in last'.terminated
                       /\ s \notin last'.pinged
                       /\ ready'[s] \in {"closing", "ending"}
               /\ (Connected(s) /\ isAlive[s])
                    => /\ s \in last'.pinged
                       /\ s \notin last'.terminated
                       /\ ~isAlive'[s]
                       /\ ready'[s] = ready[s]
               /\ ~Connected(s)
                    => (s \notin last'.pinged /\ s \notin last'.terminated)
      /\ \A s \in Sockets :
           ((isAlive'[s] /\ ~isAlive[s]) => (last'.op = "pong" /\ last'.sock = s))
      /\ (last'.op = "pong" => isAlive'[last'.sock])
      /\ (last'.op = "close" /\ last'.sock \in DOMAIN meta
            /\ meta[last'.sock].sessionId \in DOMAIN sessions)
           => /\ LET c == meta[last'.sock].sessionId
                     own == meta[last'.sock].peer
                 IN \/ /\ sessions[c].host = own
                       /\ peers'[own].socket = NoSocket
                       /\ sessions'[c].hostDetachedAt = now
                       /\ sessions'[c].clients = sessions[c].clients
                    \/ /\ sessions[c].host # own
                       /\ sessions'[c].host = sessions[c].host
                       /\ \E id \in DOMAIN sessions[c].clients :
                            /\ sessions[c].clients[id] = own
                            /\ sessions'[c].clients = Drop(sessions[c].clients, id)
              /\ \A c \in DOMAIN sessions' :
                   /\ peers'[sessions'[c].host].socket # last'.sock
                   /\ \A p \in DOMAIN sessions'[c].clients :
                        peers'[sessions'[c].clients[p]].socket # last'.sock
     ]_vars

\* C32. A participant:location from a bound peer is discarded, with no state
\* change and no frame, exactly when the server clock minus that peer's
\* lastLocationAt is less than the session's interval as it is when the
\* frame arrives; otherwise a fix whose lat and lng are numbers sets the
\* peer's location and lastLocationAt and the session's lastActivity to the
\* server clock and, from a client, sends exactly one session:location to
\* the host (none from the host); an invalid fix changes nothing.
LocationGate ==
  [][(/\ last'.op = "participant:location"
      /\ last'.sock \in DOMAIN meta
      /\ meta[last'.sock].sessionId \in DOMAIN sessions)
     => LET s == last'.sock
            code == meta[s].sessionId
            ref == meta[s].peer
            early == Less(now - peers[ref].lastLocationAt,
                          sessions[code].locationIntervalMs)
        IN IF early \/ ~last'.raw.valid
           THEN /\ peers' = peers
                /\ sessions' = sessions
                /\ sent' = <<>>
           ELSE /\ peers'[ref].lastLocationAt = now
                /\ peers'[ref].location = <<[timestamp |-> now]>>
                /\ sessions'[code].lastActivity = now
                /\ IF meta[s].role = "client"
                   THEN /\ Len(sent') = 1
                        /\ sent'[1].type = "session:location"
                        /\ sent'[1].to = hostSocket(sessions[code])
                        /\ sent'[1].participantId = peers[ref].participantId
                   ELSE sent' = <<>>
    ]_vars

\* C32, amended. As C32, the session:location of a client's accepted fix
\* being sent when the host's transport is bound and open, and not at all
\* (neither then nor later) when the host is detached or its transport is
\* not open; the fix is stored either way.
LocationGateHostOpen ==
  [][(/\ last'.op = "participant:location"
      /\ last'.sock \in DOMAIN meta
      /\ meta[last'.sock].sessionId \in DOMAIN sessions)
     => LET s == last'.sock
            code == meta[s].sessionId
            ref == meta[s].peer
            host == hostSocket(sessions[code])
            early == Less(now - peers[ref].lastLocationAt,
                          sessions[code].locationIntervalMs)
        IN IF early \/ ~last'.raw.valid
           THEN /\ peers' = peers
                /\ sessions' = sessions
                /\ sent' = <<>>
           ELSE /\ peers'[ref].lastLocationAt = now
                /\ peers'[ref].location = <<[timestamp |-> now]>>
                /\ sessions'[code].lastActivity = now
                /\ IF meta[s].role = "client" /\ host # NoSocket /\ ready[host] = "open"
                   THEN /\ Len(sent') = 1
                        /\ sent'[1].type = "session:location"
                        /\ sent'[1].to = host
                        /\ sent'[1].participantId = peers[ref].participantId
                   ELSE sent' = <<>>
    ]_vars

\* C32 happens: the host has set 7000 ms; a client's fix that arrives 7000 ms
\* after its last accepted fix is stored while the host's transport is bound
\* and no longer open, and nothing is sent.
FixStoredPastClosingHost ==
  /\ last.op = "participant:location"
  /\ last.prev # 0
  /\ now - last.prev = 7000
  /\ meta[last.sock].role = "client"
  /\ sessions[meta[last.sock].sessionId].locationIntervalMs = <<7000>>
  /\ peers[meta[last.sock].peer].lastLocationAt = now
  /\ hostSocket(sessions[meta[last.sock].sessionId]) # NoSocket
  /\ ready[hostSocket(sessions[meta[last.sock].sessionId])] # "open"
  /\ sent = <<>>

HostViewMatchesClients ==
  /\ [][last = Idle
        => \A c \in DOMAIN sessions' :
             LET h == hostSocket(sessions[c])'
                 RECURSIVE rebuilt(_, _)
                 rebuilt(ids, frames) ==
                   IF frames = <<>> THEN ids
                   ELSE LET f == Head(frames)
                        IN rebuilt(IF f.to # h THEN ids
                                   ELSE IF f.type = "session:ready"
                                        THEN {q.id : q \in f.peers}
                                   ELSE IF f.type = "session:peer-joined"
                                        THEN ids \cup {f.participant.id}
                                   ELSE IF f.type = "session:peer-left"
                                        THEN ids \ {f.participantId}
                                   ELSE ids,
                                   Tail(frames))
             IN (h # NoSocket /\ ready'[h] = "open")
                  => IF \E i \in 1..Len(sent') :
                          sent'[i].to = h /\ sent'[i].type = "session:ready"
                     THEN rebuilt({}, sent') = DOMAIN sessions'[c].clients
                     ELSE /\ c \in DOMAIN sessions
                          /\ hostSocket(sessions[c]) = h
                          /\ ready[h] = "open"
                          /\ rebuilt(DOMAIN sessions[c].clients, sent')
                               = DOMAIN sessions'[c].clients
       ]_vars
  /\ [][(last'.op = "host:resume" /\ last'.res = "ok")
        => \A i \in 1..Len(sent') :
             sent'[i].type = "session:ready"
               => LET clients == sessions[last'.code].clients
                  IN /\ {q.id : q \in sent'[i].peers} = DOMAIN clients
                     /\ \A q \in sent'[i].peers :
                          /\ q.location = peers[clients[q.id]].location
                          /\ q.routes = peers[clients[q.id]].routes
       ]_vars

\* C35. Whenever a handler resolves a session for a transport (ensureSession
\* returns one, for a command or for the close event), the transport's bound
\* peer is that session's host peer or a peer of its clients map; so a
\* transport whose session was terminated never changes or ends another
\* session, not even one that was minted under the same code.
ResolvedSessionHoldsPeer ==
  [][(/\ last'.op \in {"participant:location", "participant:message",
                       "participant:heartbeat", "host:state", "host:interval",
                       "host:shutdown", "client:routes", "close"}
      /\ last'.sock \in DOMAIN meta
      /\ meta[last'.sock].sessionId \in DOMAIN sessions)
     => LET session == sessions[meta[last'.sock].sessionId]
            own == meta[last'.sock].peer
        IN \/ session.host = own
           \/ \E p \in DOMAIN session.clients : session.clients[p] = own
    ]_vars

\* C36. Once a session's host has been detached for longer than
\* HOST_RESUME_GRACE_MS, a host:resume for that session, its current token
\* included, does not bind the host: the host slot stays empty and
\* hostDetachedAt stays as it is, whether or not a sweep has run since.
NoResumeAfterGrace ==
  [][\A c \in DOMAIN sessions :
       (/\ last'.op = "host:resume"
        /\ last'.code = c
        /\ hostSocket(sessions[c]) = NoSocket
        /\ sessions[c].hostDetachedAt # NoTime
        /\ now - sessions[c].hostDetachedAt > HOST_RESUME_GRACE_MS)
       => /\ peers'[sessions[c].host].socket = NoSocket
          /\ c \in DOMAIN sessions' => sessions'[c].hostDetachedAt = sessions[c].hostDetachedAt
    ]_vars

\* C37. Once the close event of a transport has been processed, no session
\* of the registry has that transport as the bound socket of its host or of
\* a peer of its clients map.
NoGhostPeers ==
  \A s \in Sockets :
    ready[s] = "closed"
      => \A c \in DOMAIN sessions :
           /\ hostSocket(sessions[c]) # s
           /\ \A p \in DOMAIN sessions[c].clients :
                peers[sessions[c].clients[p]].socket # s

\* C38. While a session is in the registry its lastActivity never decreases,
\* and it changes only by being set to the server clock; it is set by a
\* client:join that binds, a participant:location that is accepted, a
\* host:state that raises the version, a client:routes of a client that is
\* no duplicate (its sanitized form is not the one stored by the client's
\* previous accepted upload, be it the empty list), a participant:heartbeat
\* of a bound transport, the detach of the host and a host:resume that binds; it is left as it is by a throttled or invalid
\* location, a duplicate upload, host:interval, participant:message and
\* every command answered with session:error.
ActivityIsStamped ==
  [][\A c \in DOMAIN sessions \cap DOMAIN sessions' :
       LET s == last'.sock
           before == sessions[c].lastActivity
           after == sessions'[c].lastActivity
           bound == s \in DOMAIN meta /\ meta[s].sessionId = c
           duplicate ==
             LET sanitized == sanitizeClientRoutes(last'.raw)
                 stored == peers[meta[s].peer]
             IN /\ stored.lastRoutesAt # 0
                /\ stored.routes = IF Len(sanitized) > 0 THEN <<sanitized>> ELSE <<>>
           stamps ==
             \/ /\ last'.op = "client:join"
                /\ s \notin DOMAIN meta
                /\ s \in DOMAIN meta' /\ meta'[s].sessionId = c
             \/ /\ last'.op = "participant:location"
                /\ bound
                /\ last'.raw.valid
                /\ ~Less(now - peers[meta[s].peer].lastLocationAt,
                         sessions[c].locationIntervalMs)
             \/ /\ last'.op = "host:state"
                /\ sessions'[c].stateVersion # sessions[c].stateVersion
             \/ /\ last'.op = "client:routes"
                /\ bound
                /\ meta[s].role = "client"
                /\ ~duplicate
             \/ /\ last'.op = "participant:heartbeat"
                /\ bound
             \/ /\ last'.op = "close"
                /\ bound
                /\ meta[s].participantId = peers[sessions[c].host].participantId
             \/ /\ last'.op = "host:resume"
                /\ hostSocket(sessions[c]) = NoSocket
                /\ peers'[sessions'[c].host].socket = s
       IN /\ after >= before
          /\ after # before => after = now
          /\ stamps => after = now
          /\ ~stamps => after = before
          /\ last'.op \in {"host:interval", "participant:message"} => after = before
          /\ (\E i \in 1..Len(sent') :
                sent'[i].type = "session:error" /\ sent'[i].to = s) => after = before
    ]_vars

\* C39. A client:join that binds draws the palette entry at the session's
\* colour cursor modulo the palette's ten entries, for the peer and in the
\* session:peer-joined, and raises the cursor by exactly one; a join that
\* fails and every other command leave the cursor of every session as it is.
ColoursAreCyclic ==
  [][\A c \in DOMAIN sessions \cap DOMAIN sessions' :
       LET s == last'.sock
           joined == /\ last'.op = "client:join"
                     /\ s \notin DOMAIN meta
                     /\ s \in DOMAIN meta'
                     /\ meta'[s].sessionId = c
       IN /\ joined
               => /\ sessions'[c].colorCursor = sessions[c].colorCursor + 1
                  /\ peers'[meta'[s].peer].color = sessions[c].colorCursor % PaletteLength
                  /\ \A i \in 1..Len(sent') :
                       sent'[i].type = "session:peer-joined"
                         => sent'[i].participant.color
                              = sessions[c].colorCursor % PaletteLength
          /\ ~joined => sessions'[c].colorCursor = sessions[c].colorCursor
    ]_vars

\* C39 happens: the eleventh client of a session joins and draws the first
\* colour of the palette again.
EleventhJoinDrawsFirstColour ==
  /\ last.op = "client:join"
  /\ last.sock \in DOMAIN meta
  /\ meta[last.sock].sessionId = "AB"
  /\ sessions["AB"].colorCursor = PaletteLength + 1
  /\ peers[meta[last.sock].peer].color = 0
  /\ \E i \in 1..Len(sent) :
       sent[i].type = "session:peer-joined" /\ sent[i].participant.color = 0

\* C40. Every inbound frame is handled to completion: text that is not JSON
\* is answered with exactly one session:error "Invalid JSON payload." to its
\* sender and changes nothing, and every frame that decodes, whatever its
\* value and whatever the types of its payload fields, leaves its handler
\* with the server running and its sender still connected.
FramesHaveOutcome ==
  [][(last = Idle /\ last'.op \in {"host:init", "host:resume", "client:join",
                                    "participant:location", "participant:message",
                                    "participant:heartbeat", "host:state",
                                    "host:interval", "host:shutdown", "client:routes",
                                    "unknown", "invalid-json", "null"})
       => LET s == last'.sock
          IN /\ (last'.op = "invalid-json" /\ ready[s] = "open")
                  => /\ Len(sent') = 1
                     /\ sent'[1].type = "session:error"
                     /\ sent'[1].message = "Invalid JSON payload."
                     /\ sent'[1].to = s
                     /\ UNCHANGED <<ready, meta, peers, sessions, order, nextToken>>
             /\ last'.res # "threw"
             /\ ready'[s] # "closed"
             /\ \A t \in Sockets : ready[t] = "open" => ready'[t] # "closed"
    ]_vars
====
